---- MODULE Spec2Model ----
(***************************************************************************)
(* Model of the ApiClient of server-r-client (src/src/client.rs): the      *)
(* ETag cache behind a tokio RwLock, the three request helpers (get,       *)
(* get_with_etag, post), the response classification and the public        *)
(* operations built on them.  Every caller is a task that moves through    *)
(* the suspension points of the operation it called.                       *)
(***************************************************************************)
EXTENDS Integers, Sequences, FiniteSets, TLC

(* ------------------------------ bounds --------------------------------- *)

NumTasks == 2
NumClients == 2
NumETags == 2
MaxCalls == 3

Tasks == 1..NumTasks
Clients == 1..NumClients

(* ------------------------- values of the program ----------------------- *)

\* Option<T>: None is the empty sequence, Some(v) the one-element sequence.
None == <<>>
Some(v) == <<v>>
IsSome(o) == o # None
Unwrap(o) == o[1]

\* A String the code goes through byte by byte is a sequence of pieces: a
\* single character, or a run of characters the code treats alike (letters
\* and digits no match arm or escape singles out).  Str is the String read
\* as a whole.
RECURSIVE Str(_)
Str(s) == IF s = <<>> THEN "" ELSE Head(s) \o Str(Tail(s))

\* NodeType::as_str / Display: the canonical lowercase path segment.
NodeTypes == {"Trojan", "ShadowSocks", "Hysteria", "Hysteria2", "VMess", "AnyTLS"}
as_str(nt) ==
    CASE nt = "Trojan" -> "trojan"
      [] nt = "ShadowSocks" -> "shadowsocks"
      [] nt = "Hysteria" -> "hysteria"
      [] nt = "Hysteria2" -> "hysteria2"
      [] nt = "VMess" -> "vmess"
      [] nt = "AnyTLS" -> "anytls"

\* The node types and ids the callers of the model pass in.
CallNodeTypes == {"Trojan", "ShadowSocks"}
PlainNodeTypes == {"VMess"}
RegisterIds == {"r1"}
NodeIds == {"7"}

\* format!("{}:{}", node_type, register_id)
\* A variant that leaves the node type out of the key.
CacheKeyIdOnly(nt, rid) == "users:" \o rid
CacheKey(nt, rid) == as_str(nt) \o ":" \o rid
CacheKeys == {CacheKey(nt, rid) : nt \in CallNodeTypes, rid \in RegisterIds}

\* A header value as the transport hands it over: bytes that to_str() reads
\* as a string only when they are visible ASCII.
ETagStrings == {"e" \o ToString(i) : i \in 1..NumETags}
HeaderValues == [ascii : {TRUE}, text : ETagStrings] \cup {[ascii |-> FALSE, text |-> "\\xff"]}
to_str(hv) == IF hv.ascii THEN Some(hv.text) ELSE None

\* Response statuses the server of the model answers with.
Statuses == {200, 304, 404}
is_success(status) == status \in 200..299

\* Response bodies: a JSON envelope, text that is no JSON, or a body whose
\* read fails (None).
Bodies == {Some("{\"data\":[]}"), Some("Node not found"), None}
ErrorBodies == {Some("Node not found"), None}
IsJson(text) == text = "{\"data\":[]}"

(* ----------------------------- Config ---------------------------------- *)

\* The Config of the clients of the model: host and token (the timeout and
\* the debug flag change no outcome).
api_host == <<"http://h", "/">>
token == <<"tk">>
TheConfig == [api_host |-> api_host, token |-> token]

\* str::trim_end_matches(c): every trailing c is cut off.
RECURSIVE trim_end_matches(_, _)
trim_end_matches(s, c) ==
    IF s # <<>> /\ s[Len(s)] = c
    THEN trim_end_matches(SubSeq(s, 1, Len(s) - 1), c)
    ELSE s

\* url::form_urlencoded::byte_serialize: letters, digits and * - . _ stay,
\* a space becomes +, every other byte becomes % and its two hex digits.
Escaped ==
    (" " :> "+") @@ ("&" :> "%26") @@ ("=" :> "%3D") @@ ("?" :> "%3F") @@
    ("/" :> "%2F") @@ ("#" :> "%23") @@ ("%" :> "%25") @@ ("+" :> "%2B")
\* A variant that passes every byte through.
byte_serialize_raw(s) == s
byte_serialize(s) ==
    [i \in 1..Len(s) |-> IF s[i] \in DOMAIN Escaped THEN Escaped[s[i]] ELSE s[i]]

\* .map(|(k, v)| format!("{}={}", k, encoded)).collect::<Vec<_>>().join("&")
RECURSIVE JoinParams(_)
JoinParams(params) ==
    IF params = <<>> THEN <<>>
    ELSE <<params[1][1], "=">> \o byte_serialize(params[1][2]) \o
         (IF Len(params) > 1 THEN <<"&">> ELSE <<>>) \o JoinParams(Tail(params))

\* ApiClient::build_url: the host without its trailing slashes, the path,
\* then the token first and the endpoint's parameters in the order supplied.
build_url(config, path, params) ==
    trim_end_matches(config.api_host, "/") \o <<path>> \o <<"?">> \o
    JoinParams(<<<<"token", config.token>>>> \o params)

(* --------------------------- operations -------------------------------- *)

CondOps == {"raw_users", "users", "users_with_etag"}
GetOps == {"raw_config", "config"}
PostOps == {"register", "unregister", "verify", "submit", "submit_with_agent",
            "submit_stats_with_agent", "heartbeat", "heartbeat_with_ip"}
CacheOps == {"get_etag", "clear_etag_cache"}
HttpOps == CondOps \cup GetOps \cup PostOps
Ops == HttpOps \cup CacheOps

\* The path each public operation formats.
Path(op, nt) ==
    IF op = "raw_config" THEN "/api/v1/server/" \o as_str(nt) \o "/config"
    ELSE "/api/v1/server/enhanced/" \o as_str(nt) \o "/" \o
         (CASE op = "config" -> "config"
            [] op = "register" -> "register"
            [] op = "unregister" -> "unregister"
            [] op = "verify" -> "verify"
            [] op \in CondOps -> "users"
            [] op = "submit" -> "submit"
            [] op = "submit_with_agent" -> "submitWithAgent"
            [] op = "submit_stats_with_agent" -> "submitStatsWithAgent"
            [] op \in {"heartbeat", "heartbeat_with_ip"} -> "heartbeat")

\* The query parameters each public operation supplies next to the token;
\* id is the value as a String byte by byte.
Params(op, id) ==
    CASE op \in {"raw_config", "config", "register"} -> <<<<"node_id", id>>>>
      [] op \in CondOps \cup {"unregister"} -> <<<<"register_id", id>>>>
      [] OTHER -> <<>>

\* What the operation does with a successful response: read the bytes and
\* decode JSON, read the bytes only, or drop the response.
Decode(op) ==
    CASE op \in {"config", "register", "verify", "users", "users_with_etag"} -> "json"
      [] op \in {"raw_config", "raw_users"} -> "bytes"
      [] OTHER -> "none"

(* ------------------------------ errors --------------------------------- *)

\* ApiError constructors (src/src/error.rs) and the Ok side of Result.
from_status_code(status_code, message, url) ==
    [kind |-> "ServerError", status_code |-> status_code, message |-> message, url |-> url]
network_error(url) == [kind |-> "NetworkError", url |-> url]
parse_error(url) == [kind |-> "ParseError", url |-> url]
not_modified(url) == [kind |-> "NotModified", url |-> url]
Ok(value) == [kind |-> "Ok", value |-> value]

(* --------------------------- the ETag cache ---------------------------- *)

\* HashMap<String, String>: a function on the cache keys, None where the
\* map has no entry.
EmptyMap == [k \in CacheKeys |-> None]
MapGet(map, key) == map[key]
\* A variant of insert that rebuilds the map around the new entry.
MapInsertReplace(map, key, value) == [k \in DOMAIN map |-> IF k = key THEN Some(value) ELSE None]
MapInsert(map, key, value) == [map EXCEPT ![key] = Some(value)]
\* A variant of clear that removes a single entry.
MapClearOne(map) == [k \in DOMAIN map |-> IF k = (CHOOSE x \in DOMAIN map : TRUE) THEN None ELSE map[k]]
MapClear(map) == [k \in DOMAIN map |-> None]

\* ApiClient::new gives every client an Arc of its own: the cache a client
\* handle points to.
\* Handle NumClients + i is the clone of the client i that new built:
\* derive(Clone) copies the Arc, which points to the cache of the original.
\* A variant with one process-wide cache behind every client.
CacheOfShared(h) == 1
\* A variant whose clone points to another cache than its original.
CacheOfApart(h) == IF h > NumClients THEN ((h - NumClients) % NumClients) + 1 ELSE h
CacheOf(h) == IF h > NumClients THEN h - NumClients ELSE h
clone(h) == h + NumClients

(* ----------------------- NodeType: parse and display ------------------- *)

UpperCase == <<"A", "B", "C", "D", "E", "F", "G", "H", "I", "J", "K", "L", "M",
               "N", "O", "P", "Q", "R", "S", "T", "U", "V", "W", "X", "Y", "Z">>
LowerCase == <<"a", "b", "c", "d", "e", "f", "g", "h", "i", "j", "k", "l", "m",
               "n", "o", "p", "q", "r", "s", "t", "u", "v", "w", "x", "y", "z">>

\* str::to_lowercase, character by character.
to_lowercase(s) ==
    [i \in 1..Len(s) |->
        IF \E j \in DOMAIN UpperCase : UpperCase[j] = s[i]
        THEN LowerCase[CHOOSE j \in DOMAIN UpperCase : UpperCase[j] = s[i]]
        ELSE s[i]]

\* The Err side of a Result<_, String>.
Err(message) == [kind |-> "Err", message |-> message]

\* impl FromStr for NodeType: the match on the lowercased input.
from_str(s) ==
    LET l == Str(to_lowercase(s)) IN
    CASE l = "trojan" -> Ok("Trojan")
      [] l \in {"shadowsocks", "ss"} -> Ok("ShadowSocks")
      [] l = "hysteria" -> Ok("Hysteria")
      [] l = "hysteria2" -> Ok("Hysteria2")
      [] l = "vmess" -> Ok("VMess")
      [] l = "anytls" -> Ok("AnyTLS")
      [] OTHER -> Err("Unknown node type: " \o Str(s))

\* impl Display for NodeType: to_string writes as_str.
to_string(nt) == as_str(nt)

\* The strings handed to from_str: the names of the protocols and the alias
\* in every mix of letter cases, and strings that name no protocol.
ProtocolNames ==
    {<<"t", "r", "o", "j", "a", "n">>,
     <<"s", "h", "a", "d", "o", "w", "s", "o", "c", "k", "s">>,
     <<"h", "y", "s", "t", "e", "r", "i", "a">>,
     <<"h", "y", "s", "t", "e", "r", "i", "a", "2">>,
     <<"v", "m", "e", "s", "s">>,
     <<"a", "n", "y", "t", "l", "s">>,
     <<"t", "u", "i", "c">>,
     <<"s", "s">>}
LetterCases(n) ==
    {[i \in 1..Len(n) |->
        IF i \in up /\ (\E j \in DOMAIN LowerCase : LowerCase[j] = n[i])
        THEN UpperCase[CHOOSE j \in DOMAIN LowerCase : LowerCase[j] = n[i]]
        ELSE n[i]] : up \in SUBSET (1..Len(n))}
OtherStrings ==
    {<<>>, <<"s">>, <<"i", "n", "v", "a", "l", "i", "d">>,
     <<"t", "r", "o", "j", "a", "n", " ">>, <<"v", "m", "e", "s", "s", "2">>,
     <<"s", "o", "c", "k", "s">>}
NodeTypeStrings == UNION {LetterCases(n) : n \in ProtocolNames} \cup OtherStrings

(* --------------------- JSON documents and the configs ------------------ *)

\* A JSON value as serde_json hands it to a Deserialize impl.  An integer
\* that fits i64 carries its value; an integer above i64::MAX (serde_json
\* holds it as u64) carries its digits.
Absent == [t |-> "absent"]
JNull == [t |-> "null"]
JBool(b) == [t |-> "bool", b |-> b]
JInt(n) == [t |-> "int", n |-> n]
JBigUInt == [t |-> "uint", digits |-> "9223372036854775808"]
JFloat == [t |-> "float", digits |-> "1.5"]
JStr(s) == [t |-> "str", s |-> s]

\* bool_from_int: the untagged BoolOrInt takes a bool or an i64, and an
\* integer is true when it is not 0.
\* A variant that takes the integer 1 alone for true.
bool_from_int_one(jv) ==
    CASE jv.t = "bool" -> Ok(jv.b)
      [] jv.t = "int" -> Ok(jv.n = 1)
      [] OTHER -> Err("data did not match any variant of untagged enum BoolOrInt")
bool_from_int(jv) ==
    CASE jv.t = "bool" -> Ok(jv.b)
      [] jv.t = "int" -> Ok(jv.n # 0)
      [] OTHER -> Err("data did not match any variant of untagged enum BoolOrInt")

\* The derived Deserialize of one field, by the type the struct declares.
DecodeField(type, jv) ==
    CASE type = "i64" -> IF jv.t = "int" THEN Ok(jv.n) ELSE Err("invalid type")
      [] type = "u16" -> IF jv.t = "int" /\ jv.n \in 0..65535 THEN Ok(jv.n) ELSE Err("invalid type")
      [] type = "bool" -> IF jv.t = "bool" THEN Ok(jv.b) ELSE Err("invalid type")
      [] type = "bool_from_int" -> bool_from_int(jv)
      [] type = "Option<String>" ->
            IF jv.t = "null" THEN Ok(None)
            ELSE IF jv.t = "str" THEN Ok(Some(jv.s)) ELSE Err("invalid type")
      [] type = "Option<i32>" ->
            IF jv.t = "null" THEN Ok(None)
            ELSE IF jv.t = "int" THEN Ok(Some(jv.n)) ELSE Err("invalid type")

\* #[serde(default)]: what a field holds when the document has no such key.
DefaultOf(type) == IF type \in {"bool", "bool_from_int"} THEN FALSE ELSE None

\* The fields the config structs declare (those of a nested struct type are
\* left out): id and server_port have no default, every other field has.
Field(name, type) == [name |-> name, type |-> type]
StructFields(struct) ==
    {Field("id", "i64"), Field("server_port", "u16")} \cup
    (CASE struct = "TrojanConfig" ->
            {Field("server_name", "Option<String>"), Field("network", "Option<String>")}
       [] struct = "ShadowsocksConfig" ->
            {Field("method", "Option<String>"), Field("network", "Option<String>")}
       [] struct = "HysteriaConfig" ->
            {Field("protocol", "Option<String>"), Field("obfs", "Option<String>"),
             Field("up_mbps", "Option<i32>"), Field("down_mbps", "Option<i32>"),
             Field("disable_mtu_discovery", "bool"), Field("disable_udp", "bool")}
       [] struct = "Hysteria2Config" ->
            {Field("obfs", "Option<String>"),
             Field("up_mbps", "Option<i32>"), Field("down_mbps", "Option<i32>"),
             Field("ignore_cli_bandwidth", "bool"), Field("disable_udp", "bool")}
       [] struct = "VMessConfig" ->
            {Field("tls", "bool"), Field("network", "Option<String>")}
       [] struct = "AnyTLSConfig" ->
            {Field("server_name", "Option<String>")}
       [] struct = "TuicConfig" ->
            {Field("server_name", "Option<String>"), Field("zero_rtt_handshake", "bool_from_int")})
IsRequired(f) == f.type \in {"i64", "u16"}

\* The bytes handed to the parser: no JSON at all, the empty JSON array, or
\* a JSON object with a value or no value under each of six keys.  An object
\* may write some of its keys a second time (again): fields holds the value
\* written last.
NotJson == [json |-> "invalid"]
JArray == [json |-> "array"]
JObject(fields) == [json |-> "object", fields |-> fields, again |-> {}]
JObjectRepeat(fields, again) == [json |-> "object", fields |-> fields, again |-> again]
JsonValues(key) ==
    CASE key = "id" -> {Absent, JInt(1), JStr("1")}
      [] key = "server_port" -> {Absent, JInt(443), JInt(65536)}
      [] key = "server_name" -> {Absent, JStr("h")}
      [] key = "tls" -> {Absent, JBool(TRUE), JInt(1)}
      [] key = "disable_udp" -> {Absent, JBool(TRUE), JInt(1)}
      [] key = "zero_rtt_handshake" ->
            {Absent, JNull, JBool(TRUE), JBool(FALSE), JInt(0), JInt(1), JInt(2), JInt(-1),
             JBigUInt, JFloat, JStr("1")}
Documents ==
    {NotJson, JArray} \cup
    {JObject(fields) : fields \in [id : JsonValues("id"),
                                   server_port : JsonValues("server_port"),
                                   server_name : JsonValues("server_name"),
                                   tls : JsonValues("tls"),
                                   disable_udp : JsonValues("disable_udp"),
                                   zero_rtt_handshake : JsonValues("zero_rtt_handshake")]}
ValueAt(doc, name) == IF name \in DOMAIN doc.fields THEN doc.fields[name] ELSE Absent

\* serde_json::from_slice::<struct>(data): every declared field is decoded,
\* a missing field takes its default or, without one, fails the decode; a
\* declared field written twice fails it; keys the struct does not declare
\* are skipped.
from_slice(struct, doc) ==
    IF doc.json # "object" THEN Err("invalid type")
    ELSE IF doc.again \cap {f.name : f \in StructFields(struct)} # {} THEN Err("duplicate field")
    ELSE IF \E f \in StructFields(struct) :
               IF ValueAt(doc, f.name) = Absent THEN IsRequired(f)
               ELSE DecodeField(f.type, ValueAt(doc, f.name)).kind = "Err"
    THEN Err("invalid or missing field")
    ELSE Ok([n \in {f.name : f \in StructFields(struct)} |->
               LET f == CHOOSE g \in StructFields(struct) : g.name = n IN
               IF ValueAt(doc, n) = Absent THEN DefaultOf(f.type)
               ELSE DecodeField(f.type, ValueAt(doc, n)).value])

\* NodeConfigEnum: the variant and the config record it wraps.
Variants == {"Trojan", "ShadowSocks", "Hysteria", "Hysteria2", "VMess", "AnyTLS", "Tuic"}
NodeConfigEnum(variant, config) == [variant |-> variant, config |-> config]
StructOf(variant) ==
    CASE variant = "Trojan" -> "TrojanConfig"
      [] variant = "ShadowSocks" -> "ShadowsocksConfig"
      [] variant = "Hysteria" -> "HysteriaConfig"
      [] variant = "Hysteria2" -> "Hysteria2Config"
      [] variant = "VMess" -> "VMessConfig"
      [] variant = "AnyTLS" -> "AnyTLSConfig"
      [] variant = "Tuic" -> "TuicConfig"

\* NodeConfigEnum::type_name
type_name(cfg) ==
    CASE cfg.variant = "Trojan" -> "trojan"
      [] cfg.variant = "ShadowSocks" -> "shadowsocks"
      [] cfg.variant = "Hysteria" -> "hysteria"
      [] cfg.variant = "Hysteria2" -> "hysteria2"
      [] cfg.variant = "VMess" -> "vmess"
      [] cfg.variant = "AnyTLS" -> "anytls"
      [] cfg.variant = "Tuic" -> "tuic"

config_error(message) == [kind |-> "ConfigError", message |-> message]
type_conversion_error(expected, actual) ==
    [kind |-> "TypeConversionError", expected |-> expected, actual |-> actual]
unknown_error(message) == [kind |-> "Unknown", message |-> message]

\* The narrowing accessors of NodeConfigEnum.
as_trojan(cfg) ==
    IF cfg.variant = "Trojan" THEN Ok(cfg.config)
    ELSE type_conversion_error("TrojanConfig", type_name(cfg))
as_shadowsocks(cfg) ==
    IF cfg.variant = "ShadowSocks" THEN Ok(cfg.config)
    ELSE type_conversion_error("ShadowsocksConfig", type_name(cfg))
\* A variant that takes a Hysteria2 config for a Hysteria config.
as_hysteria_either(cfg) ==
    IF cfg.variant \in {"Hysteria", "Hysteria2"} THEN Ok(cfg.config)
    ELSE type_conversion_error("HysteriaConfig", type_name(cfg))
as_hysteria(cfg) ==
    IF cfg.variant = "Hysteria" THEN Ok(cfg.config)
    ELSE type_conversion_error("HysteriaConfig", type_name(cfg))
as_hysteria2(cfg) ==
    IF cfg.variant = "Hysteria2" THEN Ok(cfg.config)
    ELSE type_conversion_error("Hysteria2Config", type_name(cfg))
as_vmess(cfg) ==
    IF cfg.variant = "VMess" THEN Ok(cfg.config)
    ELSE type_conversion_error("VMessConfig", type_name(cfg))
as_anytls(cfg) ==
    IF cfg.variant = "AnyTLS" THEN Ok(cfg.config)
    ELSE type_conversion_error("AnyTLSConfig", type_name(cfg))
as_tuic(cfg) ==
    IF cfg.variant = "Tuic" THEN Ok(cfg.config)
    ELSE type_conversion_error("TuicConfig", type_name(cfg))

\* parse_config: the match on the node type picks the struct to decode and
\* the variant to wrap it in; a decode failure is a ParseError with no URL.
Wrap(variant, decoded) ==
    IF decoded.kind = "Ok" THEN Ok(NodeConfigEnum(variant, decoded.value)) ELSE parse_error("")
\* A variant whose Hysteria2 arm wraps the config as Hysteria.
parse_config_arm(node_type, data) ==
    CASE node_type = "Trojan" -> Wrap("Trojan", from_slice("TrojanConfig", data))
      [] node_type = "ShadowSocks" -> Wrap("ShadowSocks", from_slice("ShadowsocksConfig", data))
      [] node_type = "Hysteria" -> Wrap("Hysteria", from_slice("HysteriaConfig", data))
      [] node_type = "Hysteria2" -> Wrap("Hysteria", from_slice("Hysteria2Config", data))
      [] node_type = "VMess" -> Wrap("VMess", from_slice("VMessConfig", data))
      [] node_type = "AnyTLS" -> Wrap("AnyTLS", from_slice("AnyTLSConfig", data))
      [] node_type = "Tuic" -> Wrap("Tuic", from_slice("TuicConfig", data))
parse_config(node_type, data) ==
    CASE node_type = "Trojan" -> Wrap("Trojan", from_slice("TrojanConfig", data))
      [] node_type = "ShadowSocks" -> Wrap("ShadowSocks", from_slice("ShadowsocksConfig", data))
      [] node_type = "Hysteria" -> Wrap("Hysteria", from_slice("HysteriaConfig", data))
      [] node_type = "Hysteria2" -> Wrap("Hysteria2", from_slice("Hysteria2Config", data))
      [] node_type = "VMess" -> Wrap("VMess", from_slice("VMessConfig", data))
      [] node_type = "AnyTLS" -> Wrap("AnyTLS", from_slice("AnyTLSConfig", data))
      [] node_type = "Tuic" -> Wrap("Tuic", from_slice("TuicConfig", data))

\* The config values the accessors are applied to: every variant around
\* every record its struct decodes to.
NodeConfigs ==
    UNION {{NodeConfigEnum(v, from_slice(StructOf(v), d).value) :
              d \in {x \in Documents : from_slice(StructOf(v), x).kind = "Ok"}} : v \in Variants}

(* ------------------ the envelope around a config ----------------------- *)

\* Texts that stand where a whole response body can: a scalar JSON value, a
\* JSON array with its elements, and a JSON object written member by member.
JScalar(v) == [json |-> "scalar", v |-> v]
JArrayOf(elems) == [json |-> "array_of", elems |-> elems]
JMembers(members) == [json |-> "members", members |-> members]

\* serde_json::Value read from the text of a JSON value: an object becomes a
\* map, which keeps of a key written twice the value written last.
from_slice_value(text) ==
    CASE text.json = "object" -> [value |-> "Object", map |-> text.fields]
      [] text.json = "array" -> [value |-> "Array"]
      [] text.json = "scalar" -> [value |-> "Scalar", v |-> text.v]

\* serde_json::to_vec(&Value): the map is written with every key once.
to_vec(value) ==
    CASE value.value = "Object" -> JObject(value.map)
      [] value.value = "Array" -> JArray
      [] value.value = "Scalar" -> JScalar(value.v)

\* The derived Deserialize of ApiResponse<Value> { data, #[serde(default)]
\* message: Option<String> }: from a JSON object by key (data once, message
\* at most once, other keys skipped), from a JSON array by position.
MembersAt(doc, key) == {i \in 1..Len(doc.members) : doc.members[i][1] = key}
DecodesAsMessage(text) == text.json = "scalar" /\ text.v.t \in {"null", "str"}
from_slice_ApiResponse(doc) ==
    CASE doc.json = "members" ->
            IF \/ Cardinality(MembersAt(doc, "data")) # 1
               \/ Cardinality(MembersAt(doc, "message")) > 1
               \/ \E i \in MembersAt(doc, "message") : ~DecodesAsMessage(doc.members[i][2])
            THEN Err("missing, duplicate or invalid field")
            ELSE Ok([data |-> from_slice_value(
                                doc.members[CHOOSE i \in MembersAt(doc, "data") : TRUE][2])])
      [] doc.json = "array_of" ->
            IF \/ Len(doc.elems) \notin {1, 2}
               \/ Len(doc.elems) = 2 /\ ~DecodesAsMessage(doc.elems[2])
            THEN Err("invalid length or type")
            ELSE Ok([data |-> from_slice_value(doc.elems[1])])
      [] doc.json = "object" -> Err("missing field data")
      [] OTHER -> Err("invalid type")

\* parse_raw_config_response: the envelope is decoded, its data written back
\* to bytes and handed to parse_config; a failure of the first step is a
\* ParseError with no URL.
parse_raw_config_response(node_type, data) ==
    LET api_response == from_slice_ApiResponse(data) IN
    IF api_response.kind = "Err" THEN parse_error("")
    ELSE parse_config(node_type, to_vec(api_response.value.data))

\* ApiClient::config once the bytes of the body are read: the same two steps,
\* a failure of the first naming the path.
config_body(node_type, path, bytes) ==
    LET api_response == from_slice_ApiResponse(bytes) IN
    IF api_response.kind = "Err" THEN parse_error(path)
    ELSE parse_config(node_type, to_vec(api_response.value.data))

\* The values found under data: configs with and without their required
\* keys, a config that writes a key twice, and values that are no object.
InnerObjects ==
    {JObject(fields) : fields \in [id : JsonValues("id"),
                                   server_port : JsonValues("server_port"),
                                   server_name : {Absent},
                                   tls : {Absent},
                                   disable_udp : {Absent},
                                   zero_rtt_handshake : {Absent, JInt(1)}]}
InnerValues ==
    InnerObjects
    \cup {JObjectRepeat(d.fields, a) : d \in InnerObjects, a \in {{"id"}, {"remark"}}}
    \cup {JArray, JScalar(JNull), JScalar(JInt(1))}

\* The bodies handed to parse_raw_config_response: the envelope around each
\* value, with and without a message, with other keys, with data twice; the
\* value in an array; a config with no envelope; and bodies with no data.
EnvelopesOf(d) ==
    {JMembers(<<<<"data", d>>>>),
     JMembers(<<<<"data", d>>, <<"message", JScalar(JStr("ok"))>>>>),
     JMembers(<<<<"message", JScalar(JStr("ok"))>>, <<"data", d>>>>),
     JMembers(<<<<"data", d>>, <<"message", JScalar(JNull)>>>>),
     JMembers(<<<<"data", d>>, <<"message", JScalar(JInt(5))>>>>),
     JMembers(<<<<"data", d>>, <<"code", JScalar(JInt(0))>>>>),
     JMembers(<<<<"data", d>>, <<"data", d>>>>),
     JArrayOf(<<d>>),
     JArrayOf(<<d, JScalar(JStr("ok"))>>),
     JArrayOf(<<d, JScalar(JStr("ok")), JScalar(JInt(0))>>)}
Envelopes ==
    UNION {EnvelopesOf(d) : d \in InnerValues}
    \cup InnerObjects
    \cup {NotJson, JArray, JArrayOf(<<>>), JScalar(JNull), JScalar(JStr("x")),
          JMembers(<<>>), JMembers(<<<<"message", JScalar(JStr("ok"))>>>>)}

(* --------------------- ApiError: the classification -------------------- *)

error_type(e) ==
    CASE e.kind = "ServerError" -> "ServerError"
      [] e.kind = "NetworkError" -> "NetworkError"
      [] e.kind = "ParseError" -> "ParseError"
      [] e.kind = "NotModified" -> "NotModified"
      [] e.kind \in {"Unknown", "ConfigError", "TypeConversionError"} -> "Unknown"
is_server_error(e) == e.kind = "ServerError"
\* A variant that takes a ParseError for a network error as well.
is_network_error_wide(e) == e.kind \in {"NetworkError", "ParseError"}
is_network_error(e) == e.kind = "NetworkError"
is_parse_error(e) == e.kind = "ParseError"
is_not_modified(e) == e.kind = "NotModified"

\* The error values the predicates are applied to.
ErrorUrls == {"", "http://h/api/v1/server/vmess/config?token=tk&node_id=7"}
ApiErrors ==
    {from_status_code(s, m, u) : s \in {404, 500}, m \in {"Node not found", "Unknown error"}, u \in ErrorUrls}
    \cup {network_error(u) : u \in ErrorUrls}
    \cup {parse_error(u) : u \in ErrorUrls}
    \cup {not_modified(u) : u \in ErrorUrls}
    \cup {unknown_error(m) : m \in {"boom"}}
    \cup {config_error(m) : m \in {"Failed to create HTTP client: builder error"}}
    \cup {type_conversion_error(StructOf(v), type_name(NodeConfigEnum(w, <<>>))) :
            v \in Variants, w \in Variants}

(* --------------------------- TrafficStats ------------------------------ *)

NumUsers == 3
MaxAdds == 3
UserIds == 1..NumUsers
RequestCounts == {0, 100, 200}

\* HashMap<i64, i64>: a function on the keys it holds.
HashMapNew == [k \in {} |-> 0]
HashMapInsert(map, key, value) ==
    [k \in DOMAIN map \cup {key} |-> IF k = key THEN value ELSE map[k]]

\* TrafficStats::new (and Default::default, which calls it).
TrafficStats_new ==
    [count |-> 0, requests |-> 0, user_ids |-> <<>>, user_requests |-> HashMapNew]

\* TrafficStats::add_user: push, insert, add, count.
\* A variant that keeps the first count of an id it is given again.
add_user_keep(self, user_id, requests) ==
    [count |-> self.count + 1,
     requests |-> self.requests + requests,
     user_ids |-> Append(self.user_ids, user_id),
     user_requests |-> IF user_id \in DOMAIN self.user_requests THEN self.user_requests
                       ELSE HashMapInsert(self.user_requests, user_id, requests)]
\* A variant that puts the new id in front.
add_user_front(self, user_id, requests) ==
    [count |-> self.count + 1,
     requests |-> self.requests + requests,
     user_ids |-> <<user_id>> \o self.user_ids,
     user_requests |-> HashMapInsert(self.user_requests, user_id, requests)]
add_user(self, user_id, requests) ==
    [count |-> self.count + 1,
     requests |-> self.requests + requests,
     user_ids |-> Append(self.user_ids, user_id),
     user_requests |-> HashMapInsert(self.user_requests, user_id, requests)]

\* The inputs of build_url: hosts with and without trailing slashes, and
\* tokens and parameter values with bytes the query string escapes.
Hosts == {<<"http://h">>, <<"http://h", "/">>, <<"http://h", "/", "/">>,
          <<"http://h", "/", "api">>, <<"http://h", "/", "api", "/">>}
Tokens == {<<"tk">>, <<"t", "&", "k">>, <<"t", " ", "k">>, <<"t", "=", "k", "/">>}
QueryValues == {<<"tk">>, <<"r1">>, <<"a", "&", "b">>, <<"k", "=", "v">>, <<"p", " ", "q">>,
                <<"x", "/", "y", "?", "z">>, <<"1", "+", "1">>, <<"50", "%">>, <<>>}

\* One application of a library function: the function and its argument,
\* then what it returned.
Input(fn, arg) == [fn |-> fn, arg |-> arg, done |-> FALSE]
Output(in, out) == [fn |-> in.fn, arg |-> in.arg, done |-> TRUE, out |-> out]
NoEval == [fn |-> "none", done |-> TRUE]

(* ------------------------------- state --------------------------------- *)

VARIABLES
    cache,     \* cache[c]: the map behind client c's Arc<RwLock<..>>
    rw,        \* rw[c]: the RwLock of client c: its readers and its writer (0: none)
    handle,    \* handle[t]: the ApiClient task t holds
    pc,        \* pc[t]: the suspension point task t is at
    call,      \* call[t]: the public operation task t called and its arguments
    req,       \* req[t]: the HTTP request of task t that is in flight
    resp,      \* resp[t]: the response task t holds (status, and the ETag header a conditional
               \* GET reads); once the call returned, its status and the body that was read
    result,    \* result[t]: what the last call of task t returned
    sent,      \* sent[t]: HTTP requests issued by the current call of task t
    ncalls,    \* calls made so far (capped by MaxCalls)
    lastSeen,  \* history: lastSeen.map[c][k] is the ETag of the last 2xx response received
               \* for k on c since the last clear, recorded when lastSeen.on
    stats,     \* a TrafficStats value a caller owns
    added,     \* history: the add_user calls made on stats since it was created
    received,  \* history, kept when received.on: the ETag header values of the
               \* responses that the conditional GETs of a client received, by key
    server,    \* the server behind the users endpoint when server.on: the version of the
               \* resource of each key, and history: the versions whose data a call
               \* handed to its caller
    eval       \* a library function handed its argument, and what it returned

libvars == <<stats, added, eval>>
vars == <<cache, rw, handle, pc, call, req, resp, result, sent, ncalls, lastSeen, server, received, stats, added, eval>>

NoCall == [op |-> "none"]
NoReq == [method |-> "none"]
NoResp == [status |-> 0]
Held(status, etag) == [status |-> status, etag |-> etag]
Consumed(status, read, body) == [status |-> status, read |-> read, body |-> body]
NoResult == [kind |-> "none"]

\* The server: any server (it may answer any request with any status and
\* any ETag header), or, when on, a server that keeps validators: it sends
\* the ETag of the current version of the resource with every 2xx response
\* and with no other, and answers 304 only to a request whose If-None-Match
\* is that ETag.
ETagOfVersion(v) == "e" \o ToString(v)
AnyServer == [on |-> FALSE, version |-> [k \in CacheKeys |-> 1], delivered |-> {}]
ValidatingServer == [on |-> TRUE, version |-> [k \in CacheKeys |-> 1], delivered |-> {}]

\* The ETag header values received so far, recorded or not.
NotRecorded == [on |-> FALSE, set |-> {}]
Recorded == [on |-> TRUE, set |-> {}]

\* No library value is in use, and the server is any server.
LibIdle ==
    /\ stats = TrafficStats_new
    /\ added = <<>>
    /\ eval = NoEval
    /\ server = AnyServer
    /\ received = NotRecorded

Init ==
    /\ cache = [c \in Clients |-> EmptyMap]
    /\ rw = [c \in Clients |-> [readers |-> {}, writer |-> 0]]
    /\ handle = [t \in Tasks |-> 1]
    /\ pc = [t \in Tasks |-> "idle"]
    /\ call = [t \in Tasks |-> NoCall]
    /\ req = [t \in Tasks |-> NoReq]
    /\ resp = [t \in Tasks |-> NoResp]
    /\ result = [t \in Tasks |-> NoResult]
    /\ sent = [t \in Tasks |-> 0]
    /\ ncalls = 0
    /\ lastSeen = [on |-> FALSE, map |-> [c \in Clients |-> EmptyMap]]
    /\ LibIdle

\* The ids of the callers are runs of letters and digits: one piece.
Url(t) ==
    Str(build_url(TheConfig, Path(call[t].op, call[t].node_type),
                  Params(call[t].op, <<call[t].id>>)))
KeyOf(t) == CacheKey(call[t].node_type, call[t].id)
C(t) == CacheOf(handle[t])

\* A task returns: the result is handed to the caller, who may call again.
Return(t, r) ==
    /\ pc' = [pc EXCEPT ![t] = "idle"]
    /\ result' = [result EXCEPT ![t] = r]

\* A task moves on to its next suspension point.
Goto(t, at) ==
    /\ pc' = [pc EXCEPT ![t] = at]
    /\ UNCHANGED result

\* A caller starts an operation: the per-call state is fresh.
Begin(t, op, nt, id, at) ==
    /\ pc[t] = "idle"
    /\ ncalls < MaxCalls
    /\ ncalls' = ncalls + 1
    /\ call' = [call EXCEPT ![t] = [op |-> op, node_type |-> nt, id |-> id]]
    /\ pc' = [pc EXCEPT ![t] = at]
    /\ result' = [result EXCEPT ![t] = NoResult]
    /\ resp' = [resp EXCEPT ![t] = NoResp]
    /\ UNCHANGED <<handle, server, received, libvars>>

(* ----------------------- ApiClient::check_response --------------------- *)

\* The branch check_response takes on a status.
\* A variant that takes every status below 400 for a success.
check_response_lt400(status) == IF status < 400 THEN "success" ELSE "error"
check_response(status) ==
    IF is_success(status) THEN "success"
    ELSE IF status = 304 THEN "not_modified"
    ELSE "error"

\* The message of a ServerError: the body text, or the fallback.
ErrorMessage(text) == IF IsSome(text) THEN Unwrap(text) ELSE "Unknown error"

\* Where a task goes once check_response has looked at the status: to the
\* caller's body read, to the read of the error text, or back to the caller.
Classify(t, status, etag) ==
    CASE check_response(status) = "success" ->
            IF Decode(call[t].op) = "none"
            THEN /\ Return(t, Ok("unit"))
                 /\ resp' = [resp EXCEPT ![t] = Consumed(status, FALSE, None)]
            ELSE /\ Goto(t, "body")
                 /\ resp' = [resp EXCEPT ![t] = Held(status, etag)]
      [] check_response(status) = "not_modified" ->
            /\ Return(t, not_modified(Url(t)))
            /\ resp' = [resp EXCEPT ![t] = Consumed(status, FALSE, None)]
      [] OTHER ->
            /\ Goto(t, "errtext")
            /\ resp' = [resp EXCEPT ![t] = Held(status, etag)]

(* --------------------- ApiClient::get and ::post ----------------------- *)

\* get / post: build the URL and send the request, no cache involved.
PlainRequest(op, url) ==
    [method |-> IF op \in PostOps THEN "POST" ELSE "GET", url |-> url, if_none_match |-> None]

CallPlain(t) ==
    \E op \in GetOps \cup PostOps, nt \in PlainNodeTypes :
      \E id \in (IF op \in {"raw_config", "config", "register"} THEN NodeIds ELSE RegisterIds) :
        /\ Begin(t, op, nt, id, "inflight")
        /\ req' = [req EXCEPT ![t] =
                     PlainRequest(op, Str(build_url(TheConfig, Path(op, nt), Params(op, <<id>>))))]
        /\ sent' = [sent EXCEPT ![t] = 1]
        /\ UNCHANGED <<cache, rw, lastSeen>>

(* ---------------------- ApiClient::get_with_etag ----------------------- *)

\* A caller calls raw_users, users or users_with_etag for a node type of nts.
CallCondOf(t, nts) ==
    \E op \in CondOps, nt \in nts, id \in RegisterIds :
        /\ Begin(t, op, nt, id, "rlock")
        /\ sent' = [sent EXCEPT ![t] = 0]
        /\ UNCHANGED <<cache, rw, req, lastSeen>>

CallCond(t) == CallCondOf(t, CallNodeTypes)

\* etag_cache.read().await: granted while no writer holds the lock.
AcquireRead(t) ==
    /\ pc[t] = "rlock"
    /\ rw[C(t)].writer = 0
    /\ rw' = [rw EXCEPT ![C(t)].readers = @ \cup {t}]
    /\ pc' = [pc EXCEPT ![t] = "reading"]
    /\ UNCHANGED <<cache, handle, call, req, resp, result, sent, ncalls, lastSeen, server, received, libvars>>

\* The request of a conditional GET: If-None-Match is attached when the
\* lookup found a validator.
\* A variant that never attaches the validator.
ConditionalRequestNoHeader(url, etag) ==
    [method |-> "GET", url |-> url, if_none_match |-> None]
ConditionalRequest(url, etag) ==
    [method |-> "GET", url |-> url, if_none_match |-> etag]

\* A variant that keeps the read guard while the request is sent.
SendConditionalHolding(t) ==
    /\ pc[t] = "reading"
    /\ call[t].op \in CondOps
    /\ req' = [req EXCEPT ![t] = ConditionalRequest(Url(t), MapGet(cache[C(t)], KeyOf(t)))]
    /\ sent' = [sent EXCEPT ![t] = @ + 1]
    /\ pc' = [pc EXCEPT ![t] = "inflight"]
    /\ UNCHANGED <<cache, rw, handle, call, resp, result, ncalls, lastSeen, server, received, libvars>>

\* .get(cache_key).cloned(), the guard dropped, the request built and sent.
SendConditional(t) ==
    /\ pc[t] = "reading"
    /\ call[t].op \in CondOps
    /\ rw' = [rw EXCEPT ![C(t)].readers = @ \ {t}]
    /\ req' = [req EXCEPT ![t] = ConditionalRequest(Url(t), MapGet(cache[C(t)], KeyOf(t)))]
    /\ sent' = [sent EXCEPT ![t] = @ + 1]
    /\ pc' = [pc EXCEPT ![t] = "inflight"]
    /\ UNCHANGED <<cache, handle, call, resp, result, ncalls, lastSeen, server, received, libvars>>

\* A variant that sends the request again after a transport failure.
TransportFailRetry(t) ==
    /\ pc[t] = "inflight"
    /\ sent' = [sent EXCEPT ![t] = @ + 1]
    /\ UNCHANGED <<cache, rw, handle, pc, call, req, resp, result, ncalls, lastSeen, server, received, libvars>>

\* .send().await fails in the transport: map_err to NetworkError, `?` returns.
TransportFail(t) ==
    /\ pc[t] = "inflight"
    /\ Return(t, network_error(req[t].url))
    /\ resp' = [resp EXCEPT ![t] = NoResp]
    /\ req' = [req EXCEPT ![t] = NoReq]
    /\ UNCHANGED <<cache, rw, handle, call, sent, ncalls, lastSeen, server, received, libvars>>

\* What get_with_etag does with a response: 304 returns NotModified at once,
\* an ETag header that reads as a string is stored, then check_response.
\* A variant that looks at the ETag header before the status.
AfterSendStoreFirst(status, etag) ==
    IF IsSome(etag) /\ IsSome(to_str(Unwrap(etag))) THEN "store"
    ELSE IF status = 304 THEN "not_modified"
    ELSE "check"
AfterSend(status, etag) ==
    IF status = 304 THEN "not_modified"
    ELSE IF IsSome(etag) /\ IsSome(to_str(Unwrap(etag))) THEN "store"
    ELSE "check"

\* The ETag a 2xx response shows to the caller that received it.
SeenETag(status, etag) ==
    IF is_success(status) /\ IsSome(etag) THEN to_str(Unwrap(etag)) ELSE None

\* A variant of get / post that keeps the ETag header of the response.
RespondPlainStore(t) ==
    /\ pc[t] = "inflight"
    /\ call[t].op \notin CondOps
    /\ \E status \in Statuses, etag \in {None} \cup {Some(hv) : hv \in HeaderValues} :
          /\ Classify(t, status, None)
          /\ cache' = IF IsSome(etag) /\ IsSome(to_str(Unwrap(etag)))
                      THEN [cache EXCEPT ![C(t)] =
                              MapInsert(@, CHOOSE k \in CacheKeys : TRUE, Unwrap(to_str(Unwrap(etag))))]
                      ELSE cache
    /\ req' = [req EXCEPT ![t] = NoReq]
    /\ UNCHANGED <<rw, handle, call, sent, ncalls, lastSeen, server, received, libvars>>

\* .send().await of get / post completes with a response, whatever its
\* headers; no header is read.
RespondPlain(t) ==
    /\ pc[t] = "inflight"
    /\ call[t].op \notin CondOps
    /\ \E status \in Statuses, etag \in {None} \cup {Some(hv) : hv \in HeaderValues} :
          Classify(t, status, None)
    /\ req' = [req EXCEPT ![t] = NoReq]
    /\ UNCHANGED <<cache, rw, handle, call, sent, ncalls, lastSeen, server, received, libvars>>

\* The responses the server may give to the request of task t.
ServerSends(t, status, etag) ==
    server.on =>
        LET current == ETagOfVersion(server.version[KeyOf(t)]) IN
        /\ status = 304 => req[t].if_none_match = Some(current)
        /\ etag = (IF is_success(status) THEN Some([ascii |-> TRUE, text |-> current]) ELSE None)

\* .send().await of get_with_etag completes with a response: 304 returns at
\* once, an ETag to store waits for the write lock, anything else goes to
\* check_response.
RespondCond(t) ==
    /\ pc[t] = "inflight"
    /\ call[t].op \in CondOps
    /\ \E status \in Statuses, etag \in {None} \cup {Some(hv) : hv \in HeaderValues} :
        /\ ServerSends(t, status, etag)
        /\ received' = IF received.on /\ IsSome(etag)
                       THEN [received EXCEPT !.set = @ \cup {<<C(t), KeyOf(t), Unwrap(etag)>>}]
                       ELSE received
        /\ lastSeen' = IF lastSeen.on /\ IsSome(SeenETag(status, etag))
                       THEN [lastSeen EXCEPT !.map[C(t)][KeyOf(t)] = SeenETag(status, etag)]
                       ELSE lastSeen
        /\ CASE AfterSend(status, etag) = "not_modified" ->
                    /\ Return(t, not_modified(req[t].url))
                    /\ resp' = [resp EXCEPT ![t] = Consumed(status, FALSE, None)]
             [] AfterSend(status, etag) = "store" ->
                    /\ Goto(t, "wlock")
                    /\ resp' = [resp EXCEPT ![t] = Held(status, etag)]
             [] OTHER -> Classify(t, status, etag)
    /\ req' = [req EXCEPT ![t] = NoReq]
    /\ UNCHANGED <<cache, rw, handle, call, sent, ncalls, server, libvars>>

\* etag_cache.write().await: granted while nobody holds the lock.
AcquireWrite(t) ==
    /\ pc[t] = "wlock"
    /\ rw[C(t)].writer = 0
    /\ rw[C(t)].readers = {}
    /\ rw' = [rw EXCEPT ![C(t)].writer = t]
    /\ pc' = [pc EXCEPT ![t] = "writing"]
    /\ UNCHANGED <<cache, handle, call, req, resp, result, sent, ncalls, lastSeen, server, received, libvars>>

\* A variant that keeps the write guard after the insert.
StoreETagKeepGuard(t) ==
    /\ pc[t] = "writing"
    /\ call[t].op \in CondOps
    /\ cache' = [cache EXCEPT ![C(t)] =
                   MapInsert(@, KeyOf(t), Unwrap(to_str(Unwrap(resp[t].etag))))]
    /\ Classify(t, resp[t].status, resp[t].etag)
    /\ UNCHANGED <<rw, handle, call, req, sent, ncalls, lastSeen, server, received, libvars>>

\* A variant that inserts into the cache of every client.
StoreETagEveryCache(t) ==
    /\ pc[t] = "writing"
    /\ call[t].op \in CondOps
    /\ cache' = [c \in Clients |->
                   MapInsert(cache[c], KeyOf(t), Unwrap(to_str(Unwrap(resp[t].etag))))]
    /\ rw' = [rw EXCEPT ![C(t)].writer = 0]
    /\ Classify(t, resp[t].status, resp[t].etag)
    /\ UNCHANGED <<handle, call, req, sent, ncalls, lastSeen, server, received, libvars>>
\* A variant that inserts only into a cache that holds an entry.
StoreETagUnlessEmpty(t) ==
    /\ pc[t] = "writing"
    /\ call[t].op \in CondOps
    /\ cache' = [cache EXCEPT ![C(t)] =
                   IF @ = EmptyMap THEN @
                   ELSE MapInsert(@, KeyOf(t), Unwrap(to_str(Unwrap(resp[t].etag))))]
    /\ rw' = [rw EXCEPT ![C(t)].writer = 0]
    /\ Classify(t, resp[t].status, resp[t].etag)
    /\ UNCHANGED <<handle, call, req, sent, ncalls, lastSeen, server, received, libvars>>
\* .insert(cache_key, etag_str), the guard dropped, then check_response.
StoreETag(t) ==
    /\ pc[t] = "writing"
    /\ call[t].op \in CondOps
    /\ cache' = [cache EXCEPT ![C(t)] =
                   MapInsert(@, KeyOf(t), Unwrap(to_str(Unwrap(resp[t].etag))))]
    /\ rw' = [rw EXCEPT ![C(t)].writer = 0]
    /\ Classify(t, resp[t].status, resp[t].etag)
    /\ UNCHANGED <<handle, call, req, sent, ncalls, lastSeen, server, received, libvars>>

\* check_response on an error status: response.text().await, then ServerError.
ReadErrorText(t) ==
    /\ pc[t] = "errtext"
    /\ \E text \in ErrorBodies :
        /\ Return(t, from_status_code(resp[t].status, ErrorMessage(text), Url(t)))
        /\ resp' = [resp EXCEPT ![t] = Consumed(resp[t].status, TRUE, text)]
    /\ UNCHANGED <<cache, rw, handle, call, req, sent, ncalls, lastSeen, server, received, libvars>>

\* The public operation reads the body of a successful response and decodes it.
\* A failed read or decode names the path, not the URL.
\* A variant of users_with_etag that hands no ETag to its caller.
BodyResultNoETag(op, path, body, etag) ==
    IF body = None THEN network_error(path)
    ELSE IF Decode(op) = "bytes" THEN Ok(Unwrap(body))
    ELSE IF ~IsJson(Unwrap(body)) THEN parse_error(path)
    ELSE IF op = "users_with_etag" THEN Ok([data |-> "data", etag |-> None])
    ELSE Ok("data")
BodyResult(op, path, body, etag) ==
    IF body = None THEN network_error(path)
    ELSE IF Decode(op) = "bytes" THEN Ok(Unwrap(body))
    ELSE IF ~IsJson(Unwrap(body)) THEN parse_error(path)
    ELSE IF op = "users_with_etag"
    THEN Ok([data |-> "data", etag |-> IF IsSome(etag) THEN to_str(Unwrap(etag)) ELSE None])
    ELSE Ok("data")

\* History: the caller of a users call that returns Ok has the data of the
\* version whose ETag came with the response.
Delivered(t, r) ==
    IF server.on /\ call[t].op \in CondOps /\ r.kind = "Ok"
    THEN [server EXCEPT !.delivered = @ \cup {<<C(t), KeyOf(t), Unwrap(resp[t].etag).text>>}]
    ELSE server

ReadBody(t) ==
    /\ pc[t] = "body"
    /\ \E body \in Bodies :
        LET r == BodyResult(call[t].op, Path(call[t].op, call[t].node_type), body, resp[t].etag) IN
        /\ Return(t, r)
        /\ resp' = [resp EXCEPT ![t] = Consumed(resp[t].status, TRUE, body)]
        /\ server' = Delivered(t, r)
    /\ UNCHANGED <<cache, rw, handle, call, req, sent, ncalls, lastSeen, received, libvars>>

\* The resource of a key changes on the server: its next version.
ServerUpdate ==
    /\ server.on
    /\ \E k \in CacheKeys :
          /\ server.version[k] < NumETags
          /\ server' = [server EXCEPT !.version[k] = @ + 1]
    /\ UNCHANGED <<cache, rw, handle, pc, call, req, resp, result, sent, ncalls, lastSeen, received, libvars>>

(* ------------------- clear_etag_cache and get_etag --------------------- *)

\* A caller calls get_etag for a node type of nts.
CallGetEtagOf(t, nts) ==
    \E nt \in nts, id \in RegisterIds :
        /\ Begin(t, "get_etag", nt, id, "rlock")
        /\ sent' = [sent EXCEPT ![t] = 0]
        /\ UNCHANGED <<cache, rw, req, lastSeen>>

CallGetEtag(t) == CallGetEtagOf(t, CallNodeTypes)

\* A variant of get_etag that takes the entry out of the map.
GetEtagReturnRemove(t) ==
    /\ pc[t] = "reading"
    /\ call[t].op = "get_etag"
    /\ rw' = [rw EXCEPT ![C(t)].readers = @ \ {t}]
    /\ cache' = [cache EXCEPT ![C(t)][KeyOf(t)] = None]
    /\ Return(t, Ok(MapGet(cache[C(t)], KeyOf(t))))
    /\ UNCHANGED <<handle, call, req, resp, sent, ncalls, lastSeen, server, received, libvars>>

\* get_etag: the lookup under the read lock, returned to the caller.
GetEtagReturn(t) ==
    /\ pc[t] = "reading"
    /\ call[t].op = "get_etag"
    /\ rw' = [rw EXCEPT ![C(t)].readers = @ \ {t}]
    /\ Return(t, Ok(MapGet(cache[C(t)], KeyOf(t))))
    /\ UNCHANGED <<cache, handle, call, req, resp, sent, ncalls, lastSeen, server, received, libvars>>

CallClear(t) ==
    /\ Begin(t, "clear_etag_cache", "", "", "wlock")
    /\ sent' = [sent EXCEPT ![t] = 0]
    /\ UNCHANGED <<cache, rw, req, lastSeen>>

\* clear_etag_cache: .clear() under the write lock.
ClearCache(t) ==
    /\ pc[t] = "writing"
    /\ call[t].op = "clear_etag_cache"
    /\ cache' = [cache EXCEPT ![C(t)] = MapClear(@)]
    /\ lastSeen' = [lastSeen EXCEPT !.map[C(t)] = EmptyMap]
    /\ rw' = [rw EXCEPT ![C(t)].writer = 0]
    /\ Return(t, Ok("unit"))
    /\ UNCHANGED <<handle, call, req, resp, sent, ncalls, server, received, libvars>>

(* ---------------------------- cancellation ----------------------------- *)

\* The .await points of the operations: a caller that drops the future of
\* its call drops it at one of them.  The lookup under the read guard and the
\* insert or clear under the write guard run to their end once the lock is
\* granted.
SuspensionPoints == {"rlock", "inflight", "wlock", "errtext", "body"}
Cancelled(at) == [kind |-> "Cancelled", at |-> at]

\* A variant in which a dropped call leaves the start of a validator behind.
CancelTorn(t) ==
    /\ pc[t] \in SuspensionPoints
    /\ Return(t, Cancelled(pc[t]))
    /\ cache' = IF call[t].op \in CondOps
                THEN [cache EXCEPT ![C(t)] = MapInsert(@, KeyOf(t), "")]
                ELSE cache
    /\ req' = [req EXCEPT ![t] = NoReq]
    /\ resp' = [resp EXCEPT ![t] = NoResp]
    /\ UNCHANGED <<rw, handle, call, sent, ncalls, lastSeen, server, received, libvars>>

\* The future is dropped: the request in flight and the response held go
\* with it, the wait for the lock ends, nothing else is touched.
Cancel(t) ==
    /\ pc[t] \in SuspensionPoints
    /\ Return(t, Cancelled(pc[t]))
    /\ req' = [req EXCEPT ![t] = NoReq]
    /\ resp' = [resp EXCEPT ![t] = NoResp]
    /\ UNCHANGED <<cache, rw, handle, call, sent, ncalls, lastSeen, server, received, libvars>>

(* ------------------------- the library in use -------------------------- *)

clientvars == <<cache, rw, handle, pc, call, req, resp, result, sent, ncalls, lastSeen, server, received>>

\* "tuic".parse::<NodeType>() and the like, then to_string on what it gave.
ApplyFromStr ==
    /\ eval.fn = "from_str" /\ ~eval.done
    /\ eval' = Output(eval, LET r == from_str(eval.arg) IN
                            [parsed |-> r,
                             shown |-> IF r.kind = "Ok" THEN Some(to_string(r.value)) ELSE None])
    /\ UNCHANGED <<clientvars, stats, added>>

ApplyParseConfig ==
    /\ eval.fn = "parse_config" /\ ~eval.done
    /\ eval' = Output(eval, parse_config(eval.arg.node_type, eval.arg.data))
    /\ UNCHANGED <<clientvars, stats, added>>

\* serde_json::from_slice into a config struct, as parse_config and the
\* callers that hold the bytes of one config do.
ApplyFromSlice ==
    /\ eval.fn = "from_slice" /\ ~eval.done
    /\ eval' = Output(eval, from_slice(eval.arg.struct, eval.arg.data))
    /\ UNCHANGED <<clientvars, stats, added>>

\* parse_raw_config_response on a body, and ApiClient::config on the same
\* body as the bytes of its response.
ApplyParseRawConfigResponse ==
    /\ eval.fn = "parse_raw_config_response" /\ ~eval.done
    /\ eval' = Output(eval, [raw |-> parse_raw_config_response(eval.arg.node_type, eval.arg.data),
                             config |-> config_body(eval.arg.node_type,
                                                    Path("config", eval.arg.node_type),
                                                    eval.arg.data)])
    /\ UNCHANGED <<clientvars, stats, added>>

\* Every accessor applied to one config.
ApplyAccessors ==
    /\ eval.fn = "narrow" /\ ~eval.done
    /\ eval' = Output(eval, [as_trojan |-> as_trojan(eval.arg),
                             as_shadowsocks |-> as_shadowsocks(eval.arg),
                             as_hysteria |-> as_hysteria(eval.arg),
                             as_hysteria2 |-> as_hysteria2(eval.arg),
                             as_vmess |-> as_vmess(eval.arg),
                             as_anytls |-> as_anytls(eval.arg),
                             as_tuic |-> as_tuic(eval.arg)])
    /\ UNCHANGED <<clientvars, stats, added>>

\* error_type and the four predicates applied to one error.
ApplyErrorPredicates ==
    /\ eval.fn = "classify" /\ ~eval.done
    /\ eval' = Output(eval, [error_type |-> error_type(eval.arg),
                             is_server_error |-> is_server_error(eval.arg),
                             is_network_error |-> is_network_error(eval.arg),
                             is_parse_error |-> is_parse_error(eval.arg),
                             is_not_modified |-> is_not_modified(eval.arg)])
    /\ UNCHANGED <<clientvars, stats, added>>

\* build_url as an operation calls it: its path and its parameters.
ApplyBuildUrl ==
    /\ eval.fn = "build_url" /\ ~eval.done
    /\ eval' = Output(eval, build_url(eval.arg.config,
                                      Path(eval.arg.op, eval.arg.node_type),
                                      Params(eval.arg.op, eval.arg.id)))
    /\ UNCHANGED <<clientvars, stats, added>>

\* let mut stats = TrafficStats::new() (or ::default()).
NewStats ==
    /\ stats' = TrafficStats_new
    /\ added' = <<>>
    /\ UNCHANGED <<clientvars, eval>>

\* stats.add_user(user_id, requests)
AddUser ==
    /\ Len(added) < MaxAdds
    /\ \E user_id \in UserIds, requests \in RequestCounts :
          /\ stats' = add_user(stats, user_id, requests)
          /\ added' = Append(added, <<user_id, requests>>)
    /\ UNCHANGED <<clientvars, eval>>

(* --------------------------- specification ----------------------------- *)

\* A step of task t.
Step(t) ==
    \/ CallPlain(t)
    \/ CallCond(t)
    \/ CallGetEtag(t)
    \/ CallClear(t)
    \/ AcquireRead(t)
    \/ SendConditional(t)
    \/ GetEtagReturn(t)
    \/ TransportFail(t)
    \/ RespondPlain(t)
    \/ RespondCond(t)
    \/ AcquireWrite(t)
    \/ StoreETag(t)
    \/ ClearCache(t)
    \/ ReadErrorText(t)
    \/ ReadBody(t)

Next == \E t \in Tasks : Step(t)

\* Callers sharing one client.
Spec == Init /\ [][Next]_vars

\* A single caller making one call after the other.
NextOne == Step(1)
SpecOne == Init /\ [][NextOne]_vars

\* The same callers, with the history of received ETags recorded.
InitSeen ==
    /\ cache = [c \in Clients |-> EmptyMap]
    /\ rw = [c \in Clients |-> [readers |-> {}, writer |-> 0]]
    /\ handle = [t \in Tasks |-> 1]
    /\ pc = [t \in Tasks |-> "idle"]
    /\ call = [t \in Tasks |-> NoCall]
    /\ req = [t \in Tasks |-> NoReq]
    /\ resp = [t \in Tasks |-> NoResp]
    /\ result = [t \in Tasks |-> NoResult]
    /\ sent = [t \in Tasks |-> 0]
    /\ ncalls = 0
    /\ lastSeen = [on |-> TRUE, map |-> [c \in Clients |-> EmptyMap]]
    /\ LibIdle

SpecSeen == InitSeen /\ [][Next]_vars

\* Callers holding clients built by separate ApiClient::new calls: task t
\* holds client t (the last client when there are more tasks than clients).
InitClients ==
    /\ cache = [c \in Clients |-> EmptyMap]
    /\ rw = [c \in Clients |-> [readers |-> {}, writer |-> 0]]
    /\ handle = [t \in Tasks |-> IF t \in Clients THEN t ELSE NumClients]
    /\ pc = [t \in Tasks |-> "idle"]
    /\ call = [t \in Tasks |-> NoCall]
    /\ req = [t \in Tasks |-> NoReq]
    /\ resp = [t \in Tasks |-> NoResp]
    /\ result = [t \in Tasks |-> NoResult]
    /\ sent = [t \in Tasks |-> 0]
    /\ ncalls = 0
    /\ lastSeen = [on |-> FALSE, map |-> [c \in Clients |-> EmptyMap]]
    /\ LibIdle

SpecClients == InitClients /\ [][Next]_vars

\* Callers sharing one client, each free to drop a call it has made.
NextCancel == \E t \in Tasks : Step(t) \/ Cancel(t)
SpecCancel == Init /\ [][NextCancel]_vars

\* Callers sharing one client who call the operations that use the cache,
\* all for one node type, under the scheduling the code runs with.  The
\* runtime polls a task that can go on: the statement that holds a guard runs
\* to its end.  The RwLock of tokio queues its waiters first in, first out,
\* so a waiter that can be granted the lock again and again is granted it.
\* The transport ends every request and every read of a body, by the timeout
\* given to the HTTP client at the latest.
Synchronous(t) == SendConditional(t) \/ GetEtagReturn(t) \/ StoreETag(t) \/ ClearCache(t)
Acquire(t) == AcquireRead(t) \/ AcquireWrite(t)
Transport(t) ==
    TransportFail(t) \/ RespondPlain(t) \/ RespondCond(t) \/ ReadErrorText(t) \/ ReadBody(t)
Fairness ==
    \A t \in Tasks :
        /\ WF_vars(Synchronous(t))
        /\ SF_vars(Acquire(t))
        /\ WF_vars(Transport(t))
FairNodeTypes == {"Trojan"}
StepFair(t) ==
    \/ CallCondOf(t, FairNodeTypes)
    \/ CallGetEtagOf(t, FairNodeTypes)
    \/ CallClear(t)
    \/ AcquireRead(t)
    \/ SendConditional(t)
    \/ GetEtagReturn(t)
    \/ TransportFail(t)
    \/ RespondCond(t)
    \/ AcquireWrite(t)
    \/ StoreETag(t)
    \/ ClearCache(t)
    \/ ReadErrorText(t)
    \/ ReadBody(t)
NextFair == \E t \in Tasks : StepFair(t)
SpecFair == Init /\ [][NextFair]_vars /\ Fairness

\* Callers that issue their conditional GETs first; once every request is
\* sent one of them clears the cache, and from then on the callers only look
\* the cache up: no request is issued after the clear.
ClearCalled == \E u \in Tasks : call[u].op \in {"clear_etag_cache", "get_etag"}
AllSent == \A u \in Tasks : pc[u] \notin {"rlock", "reading"}
StepLate(t) ==
    \/ ~ClearCalled /\ CallCond(t)
    \/ ~ClearCalled /\ AllSent /\ CallClear(t)
    \/ ClearCalled /\ CallGetEtag(t)
    \/ AcquireRead(t)
    \/ SendConditional(t)
    \/ GetEtagReturn(t)
    \/ TransportFail(t)
    \/ RespondCond(t)
    \/ AcquireWrite(t)
    \/ StoreETag(t)
    \/ ClearCache(t)
    \/ ReadErrorText(t)
    \/ ReadBody(t)
NextLate == \E t \in Tasks : StepLate(t)
SpecLate == Init /\ [][NextLate]_vars

\* Two callers of the operations that use the cache, on one client or on a
\* client each, with every ETag header value their conditional GETs receive
\* recorded.
InitReceived ==
    /\ cache = [c \in Clients |-> EmptyMap]
    /\ rw = [c \in Clients |-> [readers |-> {}, writer |-> 0]]
    /\ handle \in {[t \in Tasks |-> 1], [t \in Tasks |-> t]}
    /\ pc = [t \in Tasks |-> "idle"]
    /\ call = [t \in Tasks |-> NoCall]
    /\ req = [t \in Tasks |-> NoReq]
    /\ resp = [t \in Tasks |-> NoResp]
    /\ result = [t \in Tasks |-> NoResult]
    /\ sent = [t \in Tasks |-> 0]
    /\ ncalls = 0
    /\ lastSeen = [on |-> FALSE, map |-> [c \in Clients |-> EmptyMap]]
    /\ stats = TrafficStats_new
    /\ added = <<>>
    /\ eval = NoEval
    /\ server = AnyServer
    /\ received = Recorded
StepCache(t) ==
    \/ CallCond(t)
    \/ CallGetEtag(t)
    \/ CallClear(t)
    \/ AcquireRead(t)
    \/ SendConditional(t)
    \/ GetEtagReturn(t)
    \/ TransportFail(t)
    \/ RespondCond(t)
    \/ AcquireWrite(t)
    \/ StoreETag(t)
    \/ ClearCache(t)
    \/ ReadErrorText(t)
    \/ ReadBody(t)
NextCache == \E t \in Tasks : StepCache(t)
SpecReceived == InitReceived /\ [][NextCache]_vars

\* A caller on a client and a caller on a clone of that client.
InitClone ==
    /\ cache = [c \in Clients |-> EmptyMap]
    /\ rw = [c \in Clients |-> [readers |-> {}, writer |-> 0]]
    /\ handle = [t \in Tasks |-> IF t = 1 THEN 1 ELSE clone(1)]
    /\ pc = [t \in Tasks |-> "idle"]
    /\ call = [t \in Tasks |-> NoCall]
    /\ req = [t \in Tasks |-> NoReq]
    /\ resp = [t \in Tasks |-> NoResp]
    /\ result = [t \in Tasks |-> NoResult]
    /\ sent = [t \in Tasks |-> 0]
    /\ ncalls = 0
    /\ lastSeen = [on |-> FALSE, map |-> [c \in Clients |-> EmptyMap]]
    /\ LibIdle
SpecClone == InitClone /\ [][NextCache]_vars

\* A single caller of a client whose server keeps validators.
InitServer ==
    /\ cache = [c \in Clients |-> EmptyMap]
    /\ rw = [c \in Clients |-> [readers |-> {}, writer |-> 0]]
    /\ handle = [t \in Tasks |-> 1]
    /\ pc = [t \in Tasks |-> "idle"]
    /\ call = [t \in Tasks |-> NoCall]
    /\ req = [t \in Tasks |-> NoReq]
    /\ resp = [t \in Tasks |-> NoResp]
    /\ result = [t \in Tasks |-> NoResult]
    /\ sent = [t \in Tasks |-> 0]
    /\ ncalls = 0
    /\ lastSeen = [on |-> FALSE, map |-> [c \in Clients |-> EmptyMap]]
    /\ stats = TrafficStats_new
    /\ added = <<>>
    /\ eval = NoEval
    /\ server = ValidatingServer
    /\ received = NotRecorded
NextServer == Step(1) \/ ServerUpdate
SpecServer == InitServer /\ [][NextServer]_vars

\* The library functions, each handed one argument of the input sets.
InitLib ==
    /\ cache = [c \in Clients |-> EmptyMap]
    /\ rw = [c \in Clients |-> [readers |-> {}, writer |-> 0]]
    /\ handle = [t \in Tasks |-> 1]
    /\ pc = [t \in Tasks |-> "idle"]
    /\ call = [t \in Tasks |-> NoCall]
    /\ req = [t \in Tasks |-> NoReq]
    /\ resp = [t \in Tasks |-> NoResp]
    /\ result = [t \in Tasks |-> NoResult]
    /\ sent = [t \in Tasks |-> 0]
    /\ ncalls = 0
    /\ lastSeen = [on |-> FALSE, map |-> [c \in Clients |-> EmptyMap]]
    /\ stats = TrafficStats_new
    /\ added = <<>>
    /\ server = AnyServer
    /\ received = NotRecorded
    /\ \/ \E s \in NodeTypeStrings : eval = Input("from_str", s)
       \/ \E nt \in NodeTypes, d \in Documents \cup InnerValues :
             eval = Input("parse_config", [node_type |-> nt, data |-> d])
       \/ \E nt \in NodeTypes, d \in Envelopes :
             eval = Input("parse_raw_config_response", [node_type |-> nt, data |-> d])
       \/ \E d \in Documents : eval = Input("from_slice", [struct |-> "TuicConfig", data |-> d])
       \/ \E cfg \in NodeConfigs : eval = Input("narrow", cfg)
       \/ \E e \in ApiErrors : eval = Input("classify", e)
       \/ \E h \in Hosts, tok \in Tokens, op \in HttpOps, nt \in CallNodeTypes, v \in QueryValues :
             eval = Input("build_url", [config |-> [api_host |-> h, token |-> tok],
                                        op |-> op, node_type |-> nt, id |-> v])
NextLib ==
    \/ ApplyFromStr
    \/ ApplyParseConfig
    \/ ApplyParseRawConfigResponse
    \/ ApplyFromSlice
    \/ ApplyAccessors
    \/ ApplyErrorPredicates
    \/ ApplyBuildUrl
SpecLib == InitLib /\ [][NextLib]_vars

\* A caller building up a TrafficStats value.
NextStats == NewStats \/ AddUser
SpecStats == Init /\ [][NextStats]_vars

(* ------------------------------ properties ----------------------------- *)

\* Task t takes a step.
Steps(t) == pc'[t] # pc[t]

\* The URL of the request of the operation task t called.
RequestUrl(t) ==
    Str(build_url(TheConfig, Path(call[t].op, call[t].node_type),
                  Params(call[t].op, <<call[t].id>>)))

\* The cache entry of client c for the pair (node_type, register_id).
Entry(c, nt, rid) == cache[c][as_str(nt) \o ":" \o rid]
EntryOf(t) == Entry(handle[t], call[t].node_type, call[t].id)

\* C1: the request a conditional GET sends carries If-None-Match exactly when
\* the cache held an entry for its key when the request was built, with that
\* entry as its value; with no entry there is no conditional header.
C1_IfNoneMatchFromCache ==
    [][\A t \in Tasks :
         (pc[t] = "reading" /\ call[t].op \in CondOps /\ Steps(t)) =>
            /\ pc'[t] = "inflight"
            /\ req'[t].method = "GET"
            /\ req'[t].url = RequestUrl(t)
            /\ req'[t].if_none_match = EntryOf(t)]_vars

\* C1 witness: a conditional GET in flight that carries a validator.
C1_Witness ==
    \E t \in Tasks :
        /\ pc[t] = "inflight"
        /\ call[t].op \in CondOps
        /\ req[t].if_none_match = Some("e1")

\* C2: a conditional GET that receives 304 returns NotModified with the
\* requested URL in that very step, and the step leaves the whole cache as it
\* was, with or without a validator sent.
C2_NotModifiedKeepsCache ==
    [][\A t \in Tasks :
         (pc[t] = "inflight" /\ call[t].op \in CondOps /\ resp'[t].status = 304) =>
            /\ pc'[t] = "idle"
            /\ result'[t] = [kind |-> "NotModified", url |-> RequestUrl(t)]
            /\ cache' = cache]_vars

\* C2 witness: a conditional GET returned NotModified on a 304 while the
\* cache holds an entry for its key.
C2_Witness ==
    \E t \in Tasks :
        /\ pc[t] = "idle"
        /\ call[t].op \in CondOps
        /\ resp[t].status = 304
        /\ result[t].kind = "NotModified"
        /\ IsSome(EntryOf(t))

\* The response task t holds is a 2xx response whose ETag header reads as the
\* string v.
HoldsSuccessWithETag(t, v) ==
    /\ is_success(resp[t].status)
    /\ IsSome(resp[t].etag)
    /\ Unwrap(resp[t].etag) = [ascii |-> TRUE, text |-> v]

\* C3: a conditional GET that receives a 2xx response with ETag v does not
\* return before storing it, and the store leaves the entry of its key equal
\* to v (created or overwritten) and every other entry unchanged.
C3_SuccessStoresETag ==
    [][\A t \in Tasks : \A v \in ETagStrings :
         /\ (pc[t] = "inflight" /\ call[t].op \in CondOps /\ Steps(t)
               /\ is_success(resp'[t].status) /\ pc'[t] # "wlock")
             => (resp'[t] \in [status : Statuses, etag : {None, Some([ascii |-> FALSE, text |-> "\\xff"])}])
         /\ (pc[t] = "wlock" /\ call[t].op \in CondOps /\ Steps(t)) => pc'[t] = "writing"
         /\ (pc[t] = "writing" /\ call[t].op \in CondOps /\ HoldsSuccessWithETag(t, v) /\ Steps(t))
             => /\ Entry(handle[t], call[t].node_type, call[t].id)' = Some(v)
                /\ \A c \in Clients, k \in CacheKeys :
                     (c # handle[t] \/ k # as_str(call[t].node_type) \o ":" \o call[t].id)
                        => cache'[c][k] = cache[c][k]]_vars

\* C3 witness: get_with_etag has stored the ETag of its 200 response over a
\* different earlier entry, next to an entry of another key.
C3_Witness ==
    \E t \in Tasks :
        /\ pc[t] = "body"
        /\ call[t].op \in CondOps
        /\ HoldsSuccessWithETag(t, "e2")
        /\ EntryOf(t) = Some("e2")
        /\ \E k \in CacheKeys : cache[handle[t]][k] = Some("e1")

\* The response task t holds has a status that is neither 2xx nor 304.
HoldsErrorStatus(t) ==
    /\ pc[t] \in {"wlock", "writing", "errtext"}
    /\ call[t].op \in CondOps
    /\ ~is_success(resp[t].status)
    /\ resp[t].status # 304

\* C4: a conditional GET whose response has a status other than 2xx/304
\* leaves the cache unchanged in every step it takes, also when the response
\* carries an ETag header, and returns ServerError.
C4_ErrorStatusKeepsCache ==
    [][\A t \in Tasks :
         (HoldsErrorStatus(t) /\ Steps(t)) =>
            /\ cache' = cache
            /\ (pc'[t] = "idle" => result'[t].kind = "ServerError")]_vars

\* C5: whenever no conditional GET sits between the receipt of a response and
\* its store, each entry equals the ETag of the 2xx response received last for
\* its key since the last clear.
C5_EntryIsLastSeen ==
    lastSeen.on =>
        ((\A t \in Tasks : pc[t] \notin {"wlock", "writing"}) =>
            \A c \in Clients, k \in CacheKeys : cache[c][k] = lastSeen.map[c][k])

\* C6: the step in which clear_etag_cache returns leaves no entry under any
\* key of that client, however many it held, and get_etag returns the entry
\* the cache holds for its key: none after the clear.
C6_ClearEmptiesCache ==
    [][\A t \in Tasks :
         /\ (pc[t] = "writing" /\ call[t].op = "clear_etag_cache" /\ Steps(t)) =>
               /\ pc'[t] = "idle"
               /\ \A nt \in CallNodeTypes, rid \in RegisterIds : Entry(handle[t], nt, rid)' = None
         /\ (pc[t] = "reading" /\ call[t].op = "get_etag" /\ Steps(t)) =>
               /\ pc'[t] = "idle"
               /\ result'[t] = [kind |-> "Ok", value |-> EntryOf(t)]]_vars

\* C6 witness: three calls were made: users_with_etag stored an ETag,
\* clear_etag_cache ran, and get_etag for the same key then returned none.
C6_Witness ==
    \E t, u \in Tasks :
        /\ t # u
        /\ ncalls = 3
        /\ pc[t] = "idle" /\ pc[u] = "idle"
        /\ call[u].op = "users_with_etag"
        /\ result[u].kind = "Ok"
        /\ IsSome(result[u].value.etag)
        /\ call[t].op = "get_etag"
        /\ call[t].node_type = call[u].node_type
        /\ call[t].id = call[u].id
        /\ result[t] = [kind |-> "Ok", value |-> None]
        /\ \A k \in CacheKeys : cache[handle[t]][k] = None

\* C7: an entry disappears only in the step in which clear_etag_cache on that
\* client returns, and no step of get_etag changes the cache.
C7_OnlyClearRemoves ==
    [][/\ \A c \in Clients, k \in CacheKeys :
            (IsSome(cache[c][k]) /\ ~IsSome(cache'[c][k])) =>
                \E t \in Tasks :
                    /\ handle[t] = c
                    /\ call[t].op = "clear_etag_cache"
                    /\ pc[t] = "writing"
                    /\ pc'[t] = "idle"
       /\ \A t \in Tasks : (call[t].op = "get_etag" /\ Steps(t)) => cache' = cache]_vars

\* C7 witness: an entry that get_etag returned is still there after a failed
\* request of another caller, three calls in.
C7_Witness ==
    \E t, u \in Tasks :
        /\ t # u
        /\ ncalls = 3
        /\ pc[t] = "idle" /\ pc[u] = "idle"
        /\ call[t].op = "get_etag"
        /\ result[t].kind = "Ok"
        /\ IsSome(result[t].value)
        /\ EntryOf(t) = result[t].value
        /\ call[u].op \in HttpOps
        /\ result[u].kind \in {"ServerError", "NetworkError"}

\* C8: for every operation that sends a request, the outcome follows the
\* status alone: 2xx is a success of the request (the caller then has the
\* body to read), 304 is NotModified with the request URL, any other status
\* is ServerError with that status, the body text or "Unknown error", and the
\* request URL.
C8_ClassifiedByStatus ==
    \A t \in Tasks :
        (pc[t] = "idle" /\ call[t].op \in HttpOps /\ resp[t].status # 0) =>
            /\ resp[t].status \in 200..299 =>
                  result[t].kind \in {"Ok", "NetworkError", "ParseError"}
            /\ resp[t].status = 304 =>
                  result[t] = [kind |-> "NotModified", url |-> RequestUrl(t)]
            /\ resp[t].status \notin (200..299) \cup {304} =>
                  result[t] = [kind |-> "ServerError",
                               status_code |-> resp[t].status,
                               message |-> IF resp[t].body = None
                                           THEN "Unknown error"
                                           ELSE resp[t].body[1],
                               url |-> RequestUrl(t)]

\* C8 witness: a POST answered 404 with an unreadable body returned
\* ServerError with the fallback message.
C8_Witness ==
    \E t \in Tasks :
        /\ pc[t] = "idle"
        /\ call[t].op \in PostOps
        /\ resp[t].status = 404
        /\ result[t].kind = "ServerError"
        /\ result[t].message = "Unknown error"

\* C9: a call of an operation that talks to the server has issued exactly one
\* HTTP request from the send on, and when it returns, with whatever typed
\* result, still only that one.
C9_OneRequestPerCall ==
    \A t \in Tasks :
        /\ sent[t] <= 1
        /\ (call[t].op \in HttpOps /\ pc[t] \in {"inflight", "wlock", "writing", "errtext", "body", "idle"})
              => sent[t] = 1
        /\ (call[t].op \in HttpOps /\ pc[t] = "idle") =>
              result[t].kind \in {"Ok", "ServerError", "NetworkError", "ParseError", "NotModified"}
        /\ (call[t].op \in CacheOps) => sent[t] = 0

\* C9 witness: a call returned a NetworkError after its single request.
C9_Witness ==
    \E t \in Tasks :
        /\ pc[t] = "idle"
        /\ call[t].op \in HttpOps
        /\ result[t].kind = "NetworkError"
        /\ resp[t].status = 0
        /\ sent[t] = 1

\* C10: no step of a task changes the cache of a client it does not hold, and
\* what get_etag returns and what If-None-Match carries come from the cache of
\* the client the task holds.
C10_ClientsIndependent ==
    [][\A t \in Tasks :
         /\ Steps(t) => \A c \in Clients \ {handle[t]} : cache'[c] = cache[c]
         /\ (pc[t] = "reading" /\ call[t].op = "get_etag" /\ Steps(t)) =>
               result'[t] = [kind |-> "Ok", value |-> EntryOf(t)]
         /\ (pc[t] = "reading" /\ call[t].op \in CondOps /\ Steps(t)) =>
               req'[t].if_none_match = EntryOf(t)]_vars

\* C10 witness: one client holds an entry for a key for which get_etag on the
\* other client has just returned none.
C10_Witness ==
    \E t, u \in Tasks :
        /\ handle[t] # handle[u]
        /\ pc[t] = "idle"
        /\ call[t].op = "get_etag"
        /\ result[t] = [kind |-> "Ok", value |-> None]
        /\ IsSome(cache[handle[u]][as_str(call[t].node_type) \o ":" \o call[t].id])
        /\ pc[u] = "idle"
        /\ call[u].op \in CondOps
        /\ result[u].kind = "Ok"

\* C11: dropping a call at a suspension point changes neither the cache nor
\* the lock, and whenever an entry changes it is emptied by clear_etag_cache
\* or set, by a conditional GET that holds the write lock, to the whole ETag
\* of the response that GET received for that key: a call dropped before its
\* response arrived, or before it got the write lock, never writes.
C11_CancelLeavesNoPartialState ==
    [][/\ \A t \in Tasks :
            (pc[t] \in SuspensionPoints /\ result'[t].kind = "Cancelled") =>
                /\ cache' = cache
                /\ rw' = rw
                /\ pc'[t] = "idle"
       /\ \A c \in Clients, k \in CacheKeys :
            (cache'[c][k] # cache[c][k]) =>
                \E t \in Tasks :
                    /\ handle[t] = c
                    /\ pc[t] = "writing"
                    /\ result[t].kind # "Cancelled"
                    /\ \/ call[t].op = "clear_etag_cache" /\ cache'[c][k] = None
                       \/ /\ call[t].op \in CondOps
                          /\ as_str(call[t].node_type) \o ":" \o call[t].id = k
                          /\ resp[t].status \in Statuses
                          /\ IsSome(resp[t].etag)
                          /\ Unwrap(resp[t].etag).ascii
                          /\ cache'[c][k] = Some(Unwrap(resp[t].etag).text)]_vars

\* C11 witness: a conditional GET was dropped while it waited for the write
\* lock with a response in hand; its key has no entry, another key has one.
C11_Witness ==
    \E t \in Tasks :
        /\ pc[t] = "idle"
        /\ call[t].op \in CondOps
        /\ result[t] = [kind |-> "Cancelled", at |-> "wlock"]
        /\ EntryOf(t) = None
        /\ \E k \in CacheKeys : IsSome(cache[handle[t]][k])

\* C12: an operation that returns NetworkError returns it with the URL of
\* its request.
C12_NetworkErrorCarriesUrl ==
    \A t \in Tasks :
        (pc[t] = "idle" /\ call[t].op \in HttpOps /\ result[t].kind = "NetworkError") =>
            result[t].url = RequestUrl(t)

\* C13: no step of raw_config, config, register, unregister, verify, submit,
\* submit_with_agent, submit_stats_with_agent, heartbeat or heartbeat_with_ip
\* changes the cache or takes its lock, and the request such an operation
\* sends has no If-None-Match, whatever the response.
C13_PlainOpsLeaveCacheAlone ==
    [][\A t \in Tasks :
         (call'[t].op \in GetOps \cup PostOps /\ Steps(t)) =>
            /\ cache' = cache
            /\ rw' = rw
            /\ pc'[t] \notin {"rlock", "reading", "wlock", "writing"}
            /\ (pc'[t] = "inflight" =>
                  /\ req'[t].if_none_match = None
                  /\ req'[t].url = RequestUrl(t)')]_vars

\* C13 witness: a POST returned its success while the cache held a
\* validator, which is still there.
C13_Witness ==
    \E t \in Tasks :
        /\ pc[t] = "idle"
        /\ call[t].op \in PostOps
        /\ result[t] = [kind |-> "Ok", value |-> "unit"]
        /\ \E k \in CacheKeys : cache[handle[t]][k] = Some("e1")

\* The accessor of each variant, the record name each accessor expects and
\* the canonical lowercase name of each variant.
AccessorOf ==
    ("Trojan" :> "as_trojan") @@ ("ShadowSocks" :> "as_shadowsocks") @@
    ("Hysteria" :> "as_hysteria") @@ ("Hysteria2" :> "as_hysteria2") @@
    ("VMess" :> "as_vmess") @@ ("AnyTLS" :> "as_anytls") @@ ("Tuic" :> "as_tuic")
RecordNameOf ==
    ("as_trojan" :> "TrojanConfig") @@ ("as_shadowsocks" :> "ShadowsocksConfig") @@
    ("as_hysteria" :> "HysteriaConfig") @@ ("as_hysteria2" :> "Hysteria2Config") @@
    ("as_vmess" :> "VMessConfig") @@ ("as_anytls" :> "AnyTLSConfig") @@ ("as_tuic" :> "TuicConfig")
CanonicalName ==
    ("Trojan" :> "trojan") @@ ("ShadowSocks" :> "shadowsocks") @@
    ("Hysteria" :> "hysteria") @@ ("Hysteria2" :> "hysteria2") @@
    ("VMess" :> "vmess") @@ ("AnyTLS" :> "anytls") @@ ("Tuic" :> "tuic")

\* C14: of the seven accessors applied to a config exactly one succeeds, the
\* one of the active variant, and returns its record; each other fails with
\* TypeConversionError whose expected is the record name of the accessor and
\* whose actual is the canonical lowercase name of the active variant.
C14_ExactlyOneAccessor ==
    (eval.fn = "narrow" /\ eval.done) =>
        /\ Cardinality({a \in DOMAIN RecordNameOf : eval.out[a].kind = "Ok"}) = 1
        /\ \A a \in DOMAIN RecordNameOf :
             IF a = AccessorOf[eval.arg.variant]
             THEN eval.out[a] = [kind |-> "Ok", value |-> eval.arg.config]
             ELSE eval.out[a] = [kind |-> "TypeConversionError",
                                 expected |-> RecordNameOf[a],
                                 actual |-> CanonicalName[eval.arg.variant]]

\* C14 witness: on a ShadowSocks config as_shadowsocks succeeded and as_trojan
\* failed with expected "TrojanConfig" and actual "shadowsocks".
C14_Witness ==
    /\ eval.fn = "narrow" /\ eval.done
    /\ eval.arg.variant = "ShadowSocks"
    /\ eval.out.as_shadowsocks.kind = "Ok"
    /\ eval.out.as_trojan =
          [kind |-> "TypeConversionError", expected |-> "TrojanConfig", actual |-> "shadowsocks"]

\* C15: parse_config(t, bytes) returns a ParseError, or a config whose active
\* variant is the one of t and whose type_name is the canonical string of t,
\* whatever the bytes hold.
C15_ParseConfigVariantByType ==
    (eval.fn = "parse_config" /\ eval.done) =>
        \/ eval.out.kind = "ParseError"
        \/ /\ eval.out.kind = "Ok"
           /\ eval.out.value.variant = eval.arg.node_type
           /\ type_name(eval.out.value) = to_string(eval.arg.node_type)
           /\ eval.out.value.config = from_slice(StructOf(eval.arg.node_type), eval.arg.data).value

\* C15 witness: bytes that carry the keys of a Tuic config, parsed for
\* ShadowSocks, gave a ShadowSocks config.
C15_Witness ==
    /\ eval.fn = "parse_config" /\ eval.done
    /\ eval.arg.node_type = "ShadowSocks"
    /\ eval.arg.data.json = "object"
    /\ eval.arg.data.fields.zero_rtt_handshake = JInt(1)
    /\ eval.out.kind = "Ok"
    /\ type_name(eval.out.value) = "shadowsocks"

\* C16: parsing the canonical string of each of the seven node types, in any
\* letter case, gives that type, and its to_string is the canonical lowercase
\* string; "ss" in any case gives ShadowSocks, shown as "shadowsocks"; every
\* other string fails with the unknown-node-type error naming it.
C16_ParsesSevenTypes ==
    (eval.fn = "from_str" /\ eval.done) =>
        LET l == Str(to_lowercase(eval.arg)) IN
        IF \E v \in DOMAIN CanonicalName : CanonicalName[v] = l
        THEN /\ eval.out.parsed = [kind |-> "Ok",
                                   value |-> CHOOSE v \in DOMAIN CanonicalName : CanonicalName[v] = l]
             /\ eval.out.shown = Some(l)
        ELSE IF l = "ss"
        THEN /\ eval.out.parsed = [kind |-> "Ok", value |-> "ShadowSocks"]
             /\ eval.out.shown = Some("shadowsocks")
        ELSE /\ eval.out.parsed = [kind |-> "Err",
                                   message |-> "Unknown node type: " \o Str(eval.arg)]
             /\ eval.out.shown = None

\* The sum of the request counts of a sequence of add_user calls.
RECURSIVE SumOfRequests(_)
SumOfRequests(calls) ==
    IF calls = <<>> THEN 0 ELSE calls[1][2] + SumOfRequests(Tail(calls))

\* C17: a new TrafficStats has count 0, requests 0 and empty lists; after
\* add_user calls with distinct ids count is the number of calls, requests
\* the sum of their request counts, user_ids the ids in call order, and
\* user_requests maps exactly each id to its count.
C17_TrafficStatsAccumulates ==
    /\ (added = <<>>) =>
          /\ stats.count = 0 /\ stats.requests = 0
          /\ stats.user_ids = <<>> /\ DOMAIN stats.user_requests = {}
    /\ (\A i, j \in 1..Len(added) : i # j => added[i][1] # added[j][1]) =>
          /\ stats.count = Len(added)
          /\ stats.requests = SumOfRequests(added)
          /\ stats.user_ids = [i \in 1..Len(added) |-> added[i][1]]
          /\ DOMAIN stats.user_requests = {added[i][1] : i \in 1..Len(added)}
          /\ \A i \in 1..Len(added) : stats.user_requests[added[i][1]] = added[i][2]

\* C17 witness: add_user(2, 200) after add_user(1, 100).
C17_Witness ==
    /\ added = <<<<1, 100>>, <<2, 200>>>>
    /\ stats.count = 2
    /\ stats.requests = 300
    /\ stats.user_ids = <<1, 2>>

\* The bytes are a JSON object that a TuicConfig decodes from as far as its
\* fields other than zero_rtt_handshake go.
TuicDecodeOf(z) ==
    /\ eval.fn = "from_slice" /\ eval.done
    /\ eval.arg.struct = "TuicConfig"
    /\ eval.arg.data.json = "object"
    /\ eval.arg.data.fields.id = JInt(1)
    /\ eval.arg.data.fields.server_port = JInt(443)
    /\ eval.arg.data.fields.zero_rtt_handshake = z
DecodedFlag(b) == eval.out.kind = "Ok" /\ eval.out.value.zero_rtt_handshake = b

\* No boolean field of another config takes an integer: a document with an
\* integer under tls or disable_udp fails to parse as a config that declares
\* that field.
OtherBoolsTakeNoInteger ==
    (eval.fn = "parse_config" /\ eval.done /\ eval.arg.data.json = "object") =>
        /\ (eval.arg.node_type = "VMess" /\ eval.arg.data.fields.tls.t = "int")
              => eval.out.kind = "ParseError"
        /\ (eval.arg.node_type \in {"Hysteria", "Hysteria2"}
              /\ eval.arg.data.fields.disable_udp.t = "int")
              => eval.out.kind = "ParseError"

\* C18 as stated: zero_rtt_handshake decodes a JSON boolean to itself, the
\* integer 0 to false, every nonzero JSON integer to true, and is false when
\* absent; no other boolean config field takes an integer.
C18_EveryIntegerDecodes ==
    /\ \A b \in BOOLEAN : TuicDecodeOf(JBool(b)) => DecodedFlag(b)
    /\ TuicDecodeOf(JInt(0)) => DecodedFlag(FALSE)
    /\ \A z \in {JInt(1), JInt(2), JInt(-1), JBigUInt} : TuicDecodeOf(z) => DecodedFlag(TRUE)
    /\ TuicDecodeOf(Absent) => DecodedFlag(FALSE)
    /\ OtherBoolsTakeNoInteger

\* C18 amended: zero_rtt_handshake decodes a JSON boolean to itself, the
\* integer 0 to false, every nonzero integer that fits a signed 64-bit
\* integer to true, and is false when absent; an integer above the signed
\* 64-bit range fails the decode, as null, a float and a string do; no other
\* boolean config field takes an integer.
C18_I64IntegerDecodes ==
    /\ \A b \in BOOLEAN : TuicDecodeOf(JBool(b)) => DecodedFlag(b)
    /\ TuicDecodeOf(JInt(0)) => DecodedFlag(FALSE)
    /\ \A z \in {JInt(1), JInt(2), JInt(-1)} : TuicDecodeOf(z) => DecodedFlag(TRUE)
    /\ TuicDecodeOf(Absent) => DecodedFlag(FALSE)
    /\ \A z \in {JBigUInt, JNull, JFloat, JStr("1")} : TuicDecodeOf(z) => eval.out.kind = "Err"
    /\ OtherBoolsTakeNoInteger

\* C18 witness: the integer 2 decoded to true.
C18_Witness ==
    /\ TuicDecodeOf(JInt(2))
    /\ DecodedFlag(TRUE)

\* C19: of is_server_error, is_network_error, is_parse_error and
\* is_not_modified at most one is true, each exactly on its variant, and
\* error_type names that variant; on ConfigError, TypeConversionError and
\* Unknown all four are false and error_type is Unknown.
C19_PredicatesPartition ==
    (eval.fn = "classify" /\ eval.done) =>
        LET Preds == {"is_server_error", "is_network_error", "is_parse_error", "is_not_modified"} IN
        /\ Cardinality({q \in Preds : eval.out[q]}) <= 1
        /\ eval.out.is_server_error <=> eval.arg.kind = "ServerError"
        /\ eval.out.is_network_error <=> eval.arg.kind = "NetworkError"
        /\ eval.out.is_parse_error <=> eval.arg.kind = "ParseError"
        /\ eval.out.is_not_modified <=> eval.arg.kind = "NotModified"
        /\ eval.arg.kind \in {"ServerError", "NetworkError", "ParseError", "NotModified"}
              => eval.out.error_type = eval.arg.kind
        /\ eval.arg.kind \in {"ConfigError", "TypeConversionError", "Unknown"}
              => /\ \A q \in Preds : ~eval.out[q]
                 /\ eval.out.error_type = "Unknown"

\* C19 witness: a TypeConversionError was classified: no predicate holds and
\* its type is Unknown.
C19_Witness ==
    /\ eval.fn = "classify" /\ eval.done
    /\ eval.arg.kind = "TypeConversionError"
    /\ eval.out.error_type = "Unknown"
    /\ ~eval.out.is_parse_error

\* The place of the first c in s (0: none), and s cut at every c.
FirstIndex(s, c) ==
    IF \E i \in 1..Len(s) : s[i] = c
    THEN CHOOSE i \in 1..Len(s) : s[i] = c /\ \A j \in 1..(i - 1) : s[j] # c
    ELSE 0
RECURSIVE SplitAt(_, _)
SplitAt(s, c) ==
    IF FirstIndex(s, c) = 0 THEN <<s>>
    ELSE <<SubSeq(s, 1, FirstIndex(s, c) - 1)>> \o SplitAt(SubSeq(s, FirstIndex(s, c) + 1, Len(s)), c)

\* What a server reads out of an encoded query value.
Unescaped ==
    ("+" :> " ") @@ ("%26" :> "&") @@ ("%3D" :> "=") @@ ("%3F" :> "?") @@
    ("%2F" :> "/") @@ ("%23" :> "#") @@ ("%25" :> "%") @@ ("%2B" :> "+")
form_decode(s) ==
    [i \in 1..Len(s) |-> IF s[i] \in DOMAIN Unescaped THEN Unescaped[s[i]] ELSE s[i]]

\* The host up to its last character that is no slash.
HostWithoutTrailingSlashes(h) ==
    SubSeq(h, 1, CHOOSE n \in 0..Len(h) :
                    /\ \A i \in (n + 1)..Len(h) : h[i] = "/"
                    /\ n = 0 \/ h[n] # "/")

\* C20: the URL is the configured host without its trailing slashes, then
\* the path of the endpoint, then "?" and the parameters joined by "&": the
\* first is token with the auth token, the others are those of the endpoint
\* in the order supplied; every value is encoded, so that no value puts a
\* separator into the URL and decoding gives the value back.
C20_UrlShape ==
    (eval.fn = "build_url" /\ eval.done) =>
        LET url == eval.out
            q == FirstIndex(url, "?")
            pairs == SplitAt(SubSeq(url, q + 1, Len(url)), "&")
            want == <<<<"token", eval.arg.config.token>>>> \o Params(eval.arg.op, eval.arg.id)
        IN  /\ q > 0
            /\ SubSeq(url, 1, q - 1) =
                   HostWithoutTrailingSlashes(eval.arg.config.api_host)
                      \o <<Path(eval.arg.op, eval.arg.node_type)>>
            /\ Len(pairs) = Len(want)
            /\ \A i \in 1..Len(want) :
                 /\ Len(pairs[i]) >= 2
                 /\ pairs[i][1] = want[i][1]
                 /\ pairs[i][2] = "="
                 /\ \A j \in 3..Len(pairs[i]) :
                       pairs[i][j] \notin {" ", "&", "=", "?", "/", "#", "%"}
                 /\ form_decode(SubSeq(pairs[i], 3, Len(pairs[i]))) = want[i][2]

\* C20 witness: a host with two trailing slashes, a token with "&" and a
\* register id with a space.
C20_Witness ==
    /\ eval.fn = "build_url" /\ eval.done
    /\ eval.arg.config = [api_host |-> <<"http://h", "/", "/">>, token |-> <<"t", "&", "k">>]
    /\ eval.arg.op = "users"
    /\ eval.arg.node_type = "Trojan"
    /\ eval.arg.id = <<"p", " ", "q">>
    /\ Str(eval.out) = "http://h/api/v1/server/enhanced/trojan/users?token=t%26k&register_id=p+q"

\* The text under data of a body that is a JSON object with that key once
\* and, if it has a message, a string or null as message.
IsEnvelope(body) ==
    /\ body.json = "members"
    /\ Cardinality(MembersAt(body, "data")) = 1
    /\ Cardinality(MembersAt(body, "message")) <= 1
    /\ \A i \in MembersAt(body, "message") : body.members[i][2].v.t \in {"null", "str"}
DataOf(body) == body.members[CHOOSE i \in MembersAt(body, "data") : TRUE][2]
HasNoData(body) ==
    \/ body.json # "members"
    \/ MembersAt(body, "data") = {}

\* C21: parse_raw_config_response(t, envelope) returns what parse_config(t,
\* inner) returns, inner being the JSON under data of the envelope; a body
\* that is no JSON object with a data field gives a ParseError; and config
\* does the same two steps on the body of its response: it returns the same
\* config, or a ParseError where parse_raw_config_response returns one.
C21_RawConfigResponseUnwraps ==
    (eval.fn = "parse_raw_config_response" /\ eval.done) =>
        /\ IsEnvelope(eval.arg.data) =>
              eval.out.raw = parse_config(eval.arg.node_type, DataOf(eval.arg.data))
        /\ HasNoData(eval.arg.data) => eval.out.raw.kind = "ParseError"
        /\ eval.out.config.kind = eval.out.raw.kind
        /\ eval.out.raw.kind = "Ok" => eval.out.config = eval.out.raw

\* The tasks that hold the lock of client c or wait for it.
Readers(c) == {t \in Tasks : handle[t] = c /\ pc[t] = "reading"}
Writers(c) == {t \in Tasks : handle[t] = c /\ pc[t] = "writing"}

\* C22: the lock of a cache is held by exactly the tasks that are inside
\* their lookup, insert or clear: a task whose request is in flight, or whose
\* response is being read, holds none; a conditional GET that holds the write
\* lock has its response; so a task waiting for a lock that no task is
\* using at that moment is granted it, whatever requests are pending.
C22_NoLockWhileInFlight ==
    /\ \A c \in Clients :
          /\ rw[c].readers = Readers(c)
          /\ rw[c].writer = (IF Writers(c) = {} THEN 0 ELSE CHOOSE t \in Writers(c) : TRUE)
          /\ Cardinality(Writers(c)) <= 1
          /\ Writers(c) # {} => Readers(c) = {}
    /\ \A t \in Tasks :
          /\ pc[t] = "inflight" =>
                /\ req[t].method \in {"GET", "POST"}
                /\ \A c \in Clients : t \notin rw[c].readers /\ rw[c].writer # t
          /\ (pc[t] = "writing" /\ call[t].op \in CondOps) =>
                /\ req[t] = NoReq
                /\ resp[t].status \in Statuses
                /\ IsSome(resp[t].etag)
          /\ (pc[t] = "rlock" /\ Writers(handle[t]) = {}) => rw[handle[t]].writer = 0
          /\ (pc[t] = "wlock" /\ Writers(handle[t]) = {} /\ Readers(handle[t]) = {}) =>
                rw[handle[t]] = [readers |-> {}, writer |-> 0]

\* C22 witness: clear_etag_cache holds the write lock while the conditional
\* GET of another caller is in flight.
C22_Witness ==
    \E t, u \in Tasks :
        /\ pc[t] = "inflight"
        /\ call[t].op \in CondOps
        /\ handle[u] = handle[t]
        /\ pc[u] = "writing"
        /\ call[u].op = "clear_etag_cache"
        /\ rw[handle[u]].writer = u

\* C23: every call returns: a task that waits for the lock of the cache is
\* granted it, and with its request and its body read ended by the transport
\* the operation is back at its caller, whatever the other callers of the
\* client do.
C23_EveryCallReturns ==
    \A t \in Tasks :
        /\ (pc[t] \in {"rlock", "wlock"}) ~> (pc[t] \in {"reading", "writing"})
        /\ (pc[t] # "idle") ~> (pc[t] = "idle")

\* C23 witness: a conditional GET waits for the write lock while another
\* caller holds the read lock and a third call was made before.
C23_Witness ==
    \E t, u \in Tasks :
        /\ ncalls = MaxCalls
        /\ pc[t] = "wlock"
        /\ call[t].op \in CondOps
        /\ handle[u] = handle[t]
        /\ pc[u] = "reading"
        /\ u \in rw[handle[u]].readers

\* C24: users_with_etag returns Ok with the users and with the ETag header of
\* the 2xx response it holds, read as a string; a caller with no other call
\* running finds that value as the entry of the key when the call returns.
\* A 2xx response with no ETag header (or with one that is no string) goes on
\* to the body read with the cache as it was, and the call returns no etag
\* and leaves the earlier entry in place.
C24_UsersWithETagReturnsHeader ==
    [][\A t \in Tasks :
         (call[t].op = "users_with_etag" /\ Steps(t)) =>
            /\ (pc[t] = "inflight" /\ is_success(resp'[t].status)
                   /\ SeenETag(resp'[t].status, resp'[t].etag) = None)
                 => (pc'[t] = "body" /\ cache' = cache)
            /\ (pc[t] = "body" /\ result'[t].kind = "Ok") =>
                  /\ is_success(resp[t].status)
                  /\ result'[t].value.data = "data"
                  /\ result'[t].value.etag =
                        (IF resp[t].etag = None THEN None
                         ELSE IF Unwrap(resp[t].etag).ascii THEN Some(Unwrap(resp[t].etag).text)
                         ELSE None)
                  /\ cache' = cache
                  /\ IsSome(result'[t].value.etag) => EntryOf(t) = result'[t].value.etag]_vars

\* C24 witness: users_with_etag returned the users with no etag from a 200
\* response while the entry stored by an earlier call is in place.
C24_Witness ==
    \E t \in Tasks :
        /\ pc[t] = "idle"
        /\ call[t].op = "users_with_etag"
        /\ resp[t].status = 200
        /\ result[t] = [kind |-> "Ok", value |-> [data |-> "data", etag |-> None]]
        /\ EntryOf(t) = Some("e1")

\* C25: with a server that keeps validators, a users, raw_users or
\* users_with_etag call returns NotModified only if an earlier call of the
\* three on the same client and key returned Ok with the data of the version
\* the server holds; and once every call has returned, each entry of a cache
\* is the ETag of a version whose data such a call handed to its caller.
C25_NotModifiedOnlyAfterData ==
    [][server.on =>
         /\ \A t \in Tasks :
               (pc[t] = "inflight" /\ call[t].op \in CondOps /\ result'[t].kind = "NotModified") =>
                  <<handle[t], as_str(call[t].node_type) \o ":" \o call[t].id,
                    ETagOfVersion(server.version[as_str(call[t].node_type) \o ":" \o call[t].id])>>
                      \in server.delivered
         /\ (\A t \in Tasks : pc'[t] = "idle") =>
               \A c \in Clients, k \in CacheKeys :
                   IsSome(cache'[c][k]) => <<c, k, Unwrap(cache'[c][k])>> \in server'.delivered]_vars

\* The clear has returned to its caller.
ClearReturned ==
    \E u \in Tasks : \/ call[u].op = "clear_etag_cache" /\ pc[u] = "idle"
                     \/ call[u].op = "get_etag"

\* C26: a conditional GET sent before clear_etag_cache still stores the ETag
\* of its response when the store comes after the clear has returned, and a
\* get_etag after the clear returns what the cache then holds for its key,
\* although no request was issued after the clear.
C26_LateResponseStores ==
    [][\A t \in Tasks : ClearReturned =>
         /\ (pc[t] = "writing" /\ call[t].op \in CondOps /\ pc'[t] # "writing")
              => /\ IsSome(resp[t].etag)
                 /\ Entry(handle[t], call[t].node_type, call[t].id)' = to_str(Unwrap(resp[t].etag))
         /\ (pc[t] = "reading" /\ call[t].op = "get_etag" /\ pc'[t] = "idle")
              => result'[t] = Ok(Entry(handle[t], call[t].node_type, call[t].id))]_vars

\* C26 witness: after the clear, and with every request sent before it,
\* get_etag has returned a validator.
C26_Witness ==
    \E t, u \in Tasks :
        /\ t # u
        /\ call[t].op \in CondOps
        /\ call[u].op = "get_etag" /\ pc[u] = "idle"
        /\ result[u].kind = "Ok" /\ result[u].value \in {Some(e) : e \in ETagStrings}
        /\ sent[t] = 1 /\ sent[u] = 0

\* C27: every entry of a cache is the ETag header value of a response that a
\* conditional GET for the key of the entry received on a client of that
\* cache.
C27_EntryWasReceived ==
    \A c \in Clients, k \in CacheKeys :
        IsSome(cache[c][k]) =>
            \E hv \in HeaderValues : /\ <<c, k, hv>> \in received.set
                                      /\ to_str(hv) = cache[c][k]

\* C27 witness: a cache holds an entry that is not the value received last
\* for its key, next to a cache that received a value for another key.
C27_Witness ==
    \E c \in Clients, k \in CacheKeys, e1, e2 \in ETagStrings :
        /\ e1 # e2
        /\ cache[c][k] = Some(e1)
        /\ {<<c, k, [ascii |-> TRUE, text |-> e1]>>, <<c, k, [ascii |-> TRUE, text |-> e2]>>}
              \subseteq received.set
        /\ \A t \in Tasks : pc[t] = "idle"

\* Register ids a caller may pass, with and without the separator of the key.
KeyIds == {"r1", "r2", "", ":", ":r1", "2:r1", "r1:", "trojan:r1"}

\* C28: the lookup of users, raw_users and users_with_etag, the lookup of
\* get_etag and the insert all use the entry of the cache at the key of the
\* (node_type, register_id) pair of the call and no other entry, whichever of
\* the operations it is; and two pairs have the same key only if they are the
\* same pair (a fact of the key alone, looked at when the first call is made).
C28_EntryPerPair ==
    [][\A t \in Tasks :
         LET key == as_str(call[t].node_type) \o ":" \o call[t].id IN
         /\ (ncalls = 0 /\ pc[t] = "idle" /\ pc'[t] = "rlock") =>
               \A nt1, nt2 \in NodeTypes, rid1, rid2 \in KeyIds \cup RegisterIds :
                   CacheKey(nt1, rid1) = CacheKey(nt2, rid2) => nt1 = nt2 /\ rid1 = rid2
         /\ (pc[t] = "reading" /\ call[t].op \in CondOps /\ Steps(t)) =>
               req'[t].if_none_match = cache[handle[t]][key]
         /\ (pc[t] = "reading" /\ call[t].op = "get_etag" /\ Steps(t)) =>
               result'[t] = Ok(cache[handle[t]][key])
         /\ (pc[t] = "writing" /\ call[t].op \in CondOps /\ Steps(t)) =>
               /\ IsSome(cache'[handle[t]][key])
               /\ \A k \in CacheKeys \ {key} : cache'[handle[t]][k] = cache[handle[t]][k]]_vars

\* C28 witness: after two calls, the validator that users_with_etag stored
\* and returned is in the request of raw_users for the same pair, while the
\* entry of the same register id under another node type is empty.
C28_Witness ==
    \E t, u \in Tasks, e \in ETagStrings :
        /\ ncalls = 2
        /\ call[u].op = "users_with_etag" /\ pc[u] = "idle"
        /\ result[u] = Ok([data |-> "data", etag |-> Some(e)])
        /\ call[t].op = "raw_users" /\ pc[t] = "inflight"
        /\ call[t].node_type = call[u].node_type /\ call[t].id = call[u].id
        /\ req[t].if_none_match = Some(e)
        /\ \E k \in CacheKeys : cache[handle[t]][k] = None

\* One of the two handles is the clone of the other.
CloneAndOriginal(t, u) == handle[u] = clone(handle[t]) \/ handle[t] = clone(handle[u])

\* The cache that new built for the client whose handle, or a clone of whose
\* handle, task u holds.
Through(u) == IF handle[u] > NumClients THEN handle[u] - NumClients ELSE handle[u]

\* C29: of a client and its clone, the insert of a conditional GET through
\* one handle changes the entry that the other handle reaches, the lookups of
\* a conditional GET and of get_etag through one handle read the entry the
\* other reaches, and clear_etag_cache through one empties the cache of both.
C29_CloneSharesCache ==
    [][\A t, u \in Tasks : CloneAndOriginal(t, u) =>
         LET key == as_str(call[t].node_type) \o ":" \o call[t].id IN
         /\ (pc[t] = "writing" /\ call[t].op \in CondOps /\ Steps(t)) =>
               cache'[Through(u)][key] = to_str(Unwrap(resp[t].etag))
         /\ (pc[t] = "reading" /\ call[t].op \in CondOps /\ Steps(t)) =>
               req'[t].if_none_match = cache[Through(u)][key]
         /\ (pc[t] = "reading" /\ call[t].op = "get_etag" /\ Steps(t)) =>
               result'[t] = Ok(cache[Through(u)][key])
         /\ (pc[t] = "writing" /\ call[t].op = "clear_etag_cache" /\ Steps(t)) =>
               cache'[Through(u)] = EmptyMap /\ cache'[Through(t)] = EmptyMap]_vars

\* C29 witness: after one conditional GET through the original and one
\* get_etag through the clone, get_etag has returned the validator.
C29_Witness ==
    \E t, u \in Tasks, e \in ETagStrings :
        /\ handle[u] = clone(handle[t])
        /\ ncalls = 2
        /\ call[t].op \in CondOps /\ pc[t] = "idle"
        /\ call[u].op = "get_etag" /\ pc[u] = "idle" /\ result[u] = Ok(Some(e))

\* The last add_user call of a sequence of calls that names the id.
LastCallFor(calls, id) ==
    calls[CHOOSE i \in 1..Len(calls) :
            /\ calls[i][1] = id
            /\ \A j \in (i + 1)..Len(calls) : calls[j][1] # id]

\* The sum of the values of a map of request counts.
RECURSIVE SumOfValues(_)
SumOfValues(map) ==
    IF DOMAIN map = {} THEN 0
    ELSE LET id == CHOOSE x \in DOMAIN map : TRUE IN
         map[id] + SumOfValues([x \in DOMAIN map \ {id} |-> map[x]])

\* C30: after any sequence of add_user calls, repeated ids included, count
\* is the length of user_ids and the number of calls, user_ids holds the id
\* of every call in call order, requests is the sum of the request counts of
\* all calls, and user_requests maps each id to the count of its last call.
C30_RepeatedIdsCountAgain ==
    /\ stats.count = Len(stats.user_ids)
    /\ stats.count = Len(added)
    /\ stats.user_ids = [i \in 1..Len(added) |-> added[i][1]]
    /\ stats.requests = SumOfRequests(added)
    /\ DOMAIN stats.user_requests = {added[i][1] : i \in 1..Len(added)}
    /\ \A id \in DOMAIN stats.user_requests :
          stats.user_requests[id] = LastCallFor(added, id)[2]

\* C30 witness: an id was given twice, it is twice in user_ids, and the
\* counts of user_requests add up to less than requests.
C30_Witness ==
    /\ \E i, j \in 1..Len(stats.user_ids) : i < j /\ stats.user_ids[i] = stats.user_ids[j]
    /\ stats.count = Len(added)
    /\ SumOfValues(stats.user_requests) < stats.requests

====
